---------------------------- MODULE Spec2Model ----------------------------
(***************************************************************************)
(* A model of python-kanka: the transport (KankaClient._request), the      *)
(* generic EntityManager (get / list / create / update / delete, the       *)
(* sub-resource operations) and the managed-image layer.                   *)
(*                                                                         *)
(* Python values are encoded so that every value of one kind has one TLA+  *)
(* shape: a str is a sequence of one-character strings, a dict is a        *)
(* function from keys to values, None is a tagged record.                  *)
(***************************************************************************)
EXTENDS Integers, Sequences, FiniteSets, TLC

VARIABLES
    client,     \* KankaClient: token, campaign_id, session headers
    call,       \* the operation invoked last, with its arguments
    wire,       \* the HTTP requests the last operation sent, in order
    outcome,    \* what the last operation returned or raised
    before,     \* remote: the assets as they were before the last update with images
    held,       \* the entity object the caller holds (from get / create)
    mgr,        \* per manager: the attributes set on it (_last_meta, ...)
    lastOk,     \* per manager: envelope of the last non-error list() response
    assets,     \* remote: the assets of the entity, in listing order
    assetIds,   \* remote: number of asset ids handed out so far
    stored      \* remote: the entity document and the post documents it keeps

vars == <<client, call, before, wire, outcome, held, mgr, lastOk,
          assets, assetIds, stored>>

----------------------------------------------------------------------------
(* Bounds of the model.                                                    *)

\* largest abstract JSON document id a response body may carry
MaxDoc == 2
\* number of keyword arguments passed to one call
MaxKw == 2
\* number of entries of an images mapping
MaxImages == 2
\* largest page number a caller asks for
MaxPage == 2
\* number of assets the remote creates for the entity over a run
MaxAssets == 2

----------------------------------------------------------------------------
(* Python str: sequences of one-character strings.                         *)

Min(a, b) == IF a < b THEN a ELSE b

Rep(c, n) == [i \in 1..n |-> c]

DigitChar == <<"0", "1", "2", "3", "4", "5", "6", "7", "8", "9">>

RECURSIVE IntToStr(_)
\* str(n) for a natural number n
IntToStr(n) ==
    IF n < 10 THEN <<DigitChar[n + 1]>>
    ELSE IntToStr(n \div 10) \o <<DigitChar[(n % 10) + 1]>>

RECURSIVE Join(_, _)
\* sep.join(parts)
Join(parts, sep) ==
    IF Len(parts) = 0 THEN <<>>
    ELSE IF Len(parts) = 1 THEN parts[1]
    ELSE parts[1] \o sep \o Join(Tail(parts), sep)

----------------------------------------------------------------------------
(* Exceptions (kanka/exceptions.py) and the transport (kanka/client.py).   *)

\* the base class of every exception class the program can let escape
ExceptionBase ==
    [KankaException      |-> "Exception",
     KankaError          |-> "KankaException",
     KankaAPIError       |-> "KankaException",
     NotFoundError       |-> "KankaException",
     ValidationError     |-> "KankaException",
     RateLimitError      |-> "KankaException",
     AuthenticationError |-> "KankaException",
     ForbiddenError      |-> "KankaException",
     JSONDecodeError     |-> "ValueError",
     KeyError            |-> "LookupError"]

IsKankaException(cls) ==
    cls \in DOMAIN ExceptionBase
    /\ (cls = "KankaException" \/ ExceptionBase[cls] = "KankaException")

BASE_URL == "https://api.kanka.io/1.0"

\* An endpoint relative to the campaign: {root}, {root}/{id},
\* {root}/{id}/{sub} or {root}/{id}/{sub}/{sub_id} (0: the part is absent).
Endpoint(root, id, sub, sub_id) ==
    [root |-> root, id |-> id, sub |-> sub, sub_id |-> sub_id]

\* A response body: its text is empty, a JSON document or something else;
\* doc identifies the document (0 is the empty JSON object {}).
EmptyBody == [kind |-> "empty", doc |-> 0]
EmptyDict == [kind |-> "dict", doc |-> 0]

\* response.text is truthy
HasText(body) == body.kind # "empty"
\* response.json() succeeds
JsonOk(body) == body.kind = "json"
\* the value of response.json()
JsonOf(body) == [kind |-> "dict", doc |-> body.doc]

NoMsg == [prefix |-> "", status |-> 0, endpoint |-> "", data |-> EmptyBody]

Return(v) == [kind |-> "return", exc |-> "", msg |-> NoMsg, value |-> v]
Raise(cls, m) == [kind |-> "raise", exc |-> cls, msg |-> m, value |-> EmptyDict]

Raised(o) == o.kind = "raise"

\* status 422: error_data = response.json() if response.text else {}
ValidationRaise(body) ==
    IF HasText(body)
    THEN IF JsonOk(body)
         THEN Raise("ValidationError",
                    [NoMsg EXCEPT !.prefix = "Validation error: ",
                                  !.data = JsonOf(body)])
         ELSE Raise("JSONDecodeError", NoMsg)
    ELSE Raise("ValidationError",
               [NoMsg EXCEPT !.prefix = "Validation error: ",
                             !.data = EmptyDict])

\* the response handling of KankaClient._request with 403 mapped like 401
HandleResponseSwapped(method, endpoint, resp) ==
    IF resp.status_code \in {401, 403}
    THEN Raise("AuthenticationError",
               [NoMsg EXCEPT !.prefix = "Invalid authentication token"])
    ELSE IF resp.status_code >= 400
    THEN Raise("KankaException",
               [NoMsg EXCEPT !.prefix = "API error ",
                             !.status = resp.status_code,
                             !.data = resp.body])
    ELSE IF method = "DELETE" THEN Return(EmptyDict)
    ELSE IF JsonOk(resp.body) THEN Return(JsonOf(resp.body))
    ELSE Raise("JSONDecodeError", NoMsg)

\* the response handling with the DELETE shortcut taken before the status
\* check
HandleResponseDeleteFirst(method, endpoint, resp) ==
    IF method = "DELETE" THEN Return(EmptyDict)
    ELSE HandleResponseSwapped(method, endpoint, resp)

\* KankaClient._request after session.request returned resp
HandleResponse(method, endpoint, resp) ==
    IF resp.status_code = 401
    THEN Raise("AuthenticationError",
               [NoMsg EXCEPT !.prefix = "Invalid authentication token"])
    ELSE IF resp.status_code = 403
    THEN Raise("ForbiddenError", [NoMsg EXCEPT !.prefix = "Access forbidden"])
    ELSE IF resp.status_code = 404
    THEN Raise("NotFoundError",
               [NoMsg EXCEPT !.prefix = "Resource not found: ",
                             !.endpoint = endpoint])
    ELSE IF resp.status_code = 422
    THEN ValidationRaise(resp.body)
    ELSE IF resp.status_code = 429
    THEN Raise("RateLimitError", [NoMsg EXCEPT !.prefix = "Rate limit exceeded"])
    ELSE IF resp.status_code >= 400
    THEN Raise("KankaException",
               [NoMsg EXCEPT !.prefix = "API error ",
                             !.status = resp.status_code,
                             !.data = resp.body])
    ELSE IF method = "DELETE" THEN Return(EmptyDict)
    ELSE IF JsonOk(resp.body) THEN Return(JsonOf(resp.body))
    ELSE Raise("JSONDecodeError", NoMsg)

\* the URL _request builds: BASE_URL/campaigns/{campaign_id}/{endpoint}
FullUrl(c, endpoint) ==
    [base |-> BASE_URL, campaign |-> c.campaign_id, endpoint |-> endpoint]

\* a transport that sends uploads outside the session, without its headers
HttpRequestOutsideSession(c, method, endpoint, kw) ==
    [method |-> method, url |-> FullUrl(c, endpoint),
     authorization |-> IF "files" \in DOMAIN kw THEN <<>>
                       ELSE c.headers.Authorization,
     kw |-> kw]

\* the request session.request sends, with the session's default headers;
\* kw are the keyword arguments passed on (params, json, files, data)
HttpRequest(c, method, endpoint, kw) ==
    [method |-> method, url |-> FullUrl(c, endpoint),
     authorization |-> c.headers.Authorization, kw |-> kw]

----------------------------------------------------------------------------
(* The transport alone: one _request call per step, any status, any body.  *)

Tokens == {"t1", "t2"}
Campaigns == {123, 456}
Methods == {"GET", "POST", "PATCH", "DELETE"}
Endpoints ==
    {Endpoint("characters", 0, "", 0), Endpoint("characters", 1, "", 0),
     Endpoint("entities", 2, "posts", 0)}
Statuses == {200, 201, 204, 302, 399, 400, 401, 403, 404, 409, 422, 429, 500, 503}
Bodies ==
    {EmptyBody} \cup [kind : {"json", "other"}, doc : 0..MaxDoc]
Responses == [status_code : Statuses, body : Bodies]

\* KankaClient.__init__
NewClient(token, campaign_id) ==
    [token |-> token, campaign_id |-> campaign_id,
     headers |-> [Authorization |-> <<"Bearer ", token>>,
                  Accept |-> "application/json",
                  ContentType |-> "application/json"]]

NoCall == [op |-> "none"]
NoEntity == [oid |-> 0]
Managers == {"characters", "locations"}

\* nothing called yet, no attribute set on any manager, no asset on the remote
InitRest ==
    /\ call = NoCall
    /\ before = <<>>
    /\ wire = <<>>
    /\ outcome = Return(EmptyDict)
    /\ held = NoEntity
    /\ mgr = [m \in Managers |-> <<>>]
    /\ lastOk = [m \in Managers |-> [seen |-> FALSE, meta |-> <<>>, links |-> <<>>]]
    /\ assets = <<>>
    /\ assetIds = 0

\* a remote that keeps no document
NoStore == [doc |-> <<>>, posts |-> <<>>]

InitRequest ==
    /\ \E t \in Tokens, c \in Campaigns : client = NewClient(t, c)
    /\ InitRest
    /\ stored = NoStore

\* the transport that sends every request twice
RequestTwice ==
    \E method \in Methods, endpoint \in Endpoints, resp \in Responses :
        /\ call' = [op |-> "_request", method |-> method,
                    endpoint |-> endpoint, resp |-> resp]
        /\ wire' = <<HttpRequest(client, method, endpoint, <<>>),
                     HttpRequest(client, method, endpoint, <<>>)>>
        /\ outcome' = HandleResponse(method, endpoint, resp)
        /\ UNCHANGED <<client, before, held, mgr, lastOk, assets, assetIds,
                       stored>>

\* KankaClient._request(method, endpoint): one HTTP request, then the mapping
_request ==
    \E method \in Methods, endpoint \in Endpoints, resp \in Responses :
        /\ call' = [op |-> "_request", method |-> method,
                    endpoint |-> endpoint, resp |-> resp]
        /\ wire' = <<HttpRequest(client, method, endpoint, <<>>)>>
        /\ outcome' = HandleResponse(method, endpoint, resp)
        /\ UNCHANGED <<client, before, held, mgr, lastOk, assets, assetIds,
                       stored>>

NextRequest == _request

SpecRequest == InitRequest /\ [][NextRequest]_vars

----------------------------------------------------------------------------
(* C1: the error taxonomy of KankaClient._request.                         *)

MappedStatuses == {401, 403, 404, 422, 429}

RaisedAs(cls) == Raised(outcome) /\ outcome.exc = cls

\* the part of the taxonomy that does not read the body as JSON
C1_StatusOnly ==
    LET s == call.resp.status_code IN
    /\ RaisedAs("AuthenticationError") <=> s = 401
    /\ RaisedAs("ForbiddenError") <=> s = 403
    /\ RaisedAs("NotFoundError") <=> s = 404
    /\ RaisedAs("RateLimitError") <=> s = 429
    /\ RaisedAs("KankaException") <=> (s >= 400 /\ s \notin MappedStatuses)
    /\ RaisedAs("KankaException") =>
           /\ outcome.msg.status = s
           /\ outcome.msg.data = call.resp.body
    /\ RaisedAs("ValidationError") =>
           outcome.msg.data = (IF HasText(call.resp.body)
                               THEN [kind |-> "dict", doc |-> call.resp.body.doc]
                               ELSE EmptyDict)

\* C1 as stated: for every status s, _request raises AuthenticationError iff
\* s = 401, ForbiddenError iff s = 403, NotFoundError iff s = 404,
\* ValidationError (with the body's details, empty for an empty body) iff
\* s = 422, RateLimitError iff s = 429, the generic KankaException with status
\* and body text for every other s >= 400, nothing for s < 400; and every
\* raised error is a KankaException.
C1_AsStated ==
    call.op = "_request" =>
        LET s == call.resp.status_code IN
        /\ C1_StatusOnly
        /\ RaisedAs("ValidationError") <=> s = 422
        /\ s < 400 => ~Raised(outcome)
        /\ Raised(outcome) => IsKankaException(outcome.exc)

\* C1 (amended): the status decides the KankaException exactly as stated,
\* whenever the body that has to be parsed is parseable: ValidationError iff
\* s = 422 and the body is empty or valid JSON; for s < 400 no KankaException
\* is raised, a DELETE returns {} and any other method returns the parsed
\* body; the only error raised that is not a KankaException is the JSON
\* decoder's own, raised exactly when a body that is read (a non-empty one on
\* 422, any on a non-DELETE success) is not valid JSON.
C1_StatusTaxonomy ==
    call.op = "_request" =>
        LET s == call.resp.status_code
            body == call.resp.body
            unreadable ==
                \/ s = 422 /\ body.kind = "other"
                \/ s < 400 /\ call.method # "DELETE" /\ body.kind # "json"
        IN
        /\ C1_StatusOnly
        /\ RaisedAs("ValidationError") <=> (s = 422 /\ body.kind # "other")
        /\ RaisedAs("JSONDecodeError") <=> unreadable
        /\ (s < 400 /\ ~unreadable) =>
               /\ ~Raised(outcome)
               /\ outcome.value = (IF call.method = "DELETE" THEN EmptyDict
                                   ELSE [kind |-> "dict", doc |-> body.doc])
        /\ (Raised(outcome) /\ ~unreadable) => IsKankaException(outcome.exc)

\* a 422 with a JSON body of details raised ValidationError carrying them
C1_Witness ==
    /\ call.op = "_request"
    /\ call.resp.status_code = 422
    /\ call.resp.body = [kind |-> "json", doc |-> 1]
    /\ RaisedAs("ValidationError")
    /\ outcome.msg.data = [kind |-> "dict", doc |-> 1]

----------------------------------------------------------------------------
(* Python values, as the manager handles them.                             *)
(* t is the type; n the number of an int or bool; s the characters of a    *)
(* str and h the src attribute values of the img tags it holds, in order;  *)
(* l the items of a list or tuple.                                         *)

PyNone == [t |-> "none", n |-> 0, s |-> <<>>, h |-> <<>>, l |-> <<>>]
PyBool(b) == [PyNone EXCEPT !.t = "bool", !.n = IF b THEN 1 ELSE 0]
PyInt(n) == [PyNone EXCEPT !.t = "int", !.n = n]
PyStr(chars) == [PyNone EXCEPT !.t = "str", !.s = chars]
PyHtml(chars, srcs) == [PyNone EXCEPT !.t = "str", !.s = chars, !.h = srcs]
PyList(items) == [PyNone EXCEPT !.t = "list", !.l = items]
PyTuple(items) == [PyNone EXCEPT !.t = "tuple", !.l = items]

\* a == b in Python: bool is an int (True == 1), anything else by value
PyEq(a, b) ==
    IF a.t \in {"bool", "int"} /\ b.t \in {"bool", "int"}
    THEN a.n = b.n
    ELSE a = b

\* bool(v)
Truthy(v) ==
    CASE v.t = "none" -> FALSE
      [] v.t \in {"bool", "int"} -> v.n # 0
      [] v.t = "str" -> v.s # <<>> \/ v.h # <<>>
      [] OTHER -> v.l # <<>>

\* str(v), for the values a filter list may hold
PyStrOf(v) ==
    CASE v.t = "int" -> IntToStr(v.n)
      [] v.t = "bool" -> IF v.n = 1 THEN <<"T", "r", "u", "e">>
                         ELSE <<"F", "a", "l", "s", "e">>
      [] v.t = "none" -> <<"N", "o", "n", "e">>
      [] OTHER -> v.s

\* dicts are functions from keys
DictWithout(d, keys) == [k \in DOMAIN d \ keys |-> d[k]]
DictUpdate(d, e) ==
    [k \in DOMAIN d \cup DOMAIN e |-> IF k \in DOMAIN e THEN e[k] ELSE d[k]]
DictSet(d, key, v) ==
    [k \in DOMAIN d \cup {key} |-> IF k = key THEN v ELSE d[k]]
\* d.get(key), None when the key is absent
DictGet(d, key) == IF key \in DOMAIN d THEN d[key] ELSE PyNone

\* every dict over at most n of the keys of choices, each key with one of
\* the values choices offers for it
DictsOver(choices, n) ==
    UNION {{d \in [S -> UNION {choices[k] : k \in S}] :
                \A k \in S : d[k] \in choices[k]} :
           S \in {T \in SUBSET DOMAIN choices : Cardinality(T) <= n}}

----------------------------------------------------------------------------
(* Pydantic models (kanka/models/base.py, entities.py): an instance is its *)
(* field values, the set of fields given explicitly and an identity.       *)

\* Entity: the fields with a default
EntityDefaults ==
    [image |-> PyNone, image_full |-> PyNone, image_thumb |-> PyNone,
     is_private |-> PyBool(FALSE), tags |-> PyList(<<>>), entry |-> PyNone]

\* Character(Entity): the defaults of the fields it adds (title, type and
\* is_dead stand for its optional fields)
CharacterDefaults ==
    DictUpdate(EntityDefaults,
               [title |-> PyNone, type |-> PyNone, is_dead |-> PyBool(FALSE)])

\* model(**data): extra='allow' keeps unknown keys; oid is the identity
ModelInit(defaults, data, oid) ==
    [oid |-> oid, fields |-> DictUpdate(defaults, data), set |-> DOMAIN data]

\* entity.model_copy(update=kwargs)
model_copy(entity, update) ==
    [entity EXCEPT !.fields = DictUpdate(@, update),
                   !.set = @ \cup DOMAIN update]

\* entity.model_dump(exclude_unset=..., exclude=...)
model_dump(entity, exclude_unset, exclude) ==
    LET keys == IF exclude_unset THEN entity.set ELSE DOMAIN entity.fields
    IN  [k \in keys \ exclude |-> entity.fields[k]]

\* the fields create() pops and update() excludes
ServerAssigned ==
    {"id", "entity_id", "created_at", "created_by", "updated_at", "updated_by"}

\* an entity object or a bare int, as the entity_or_id arguments take it
ById(n) == [isint |-> TRUE, n |-> n, ent |-> NoEntity]
ByObject(e) == [isint |-> FALSE, n |-> 0, ent |-> e]

----------------------------------------------------------------------------
(* Managed asset names (managers.py: _MANAGED_ASSET_RE and the helpers).   *)

\* max_name_len in _format_managed_asset_name
max_name_len == 32
\* the length of the hash prefix: hexdigest()[:12] and {12} in the pattern
hash_len == 12

HexDigits ==
    {"0", "1", "2", "3", "4", "5", "6", "7", "8", "9",
     "a", "b", "c", "d", "e", "f"}

\* the files a caller may name, their stem and the SHA-256 prefix of their
\* content: two files of different content
Files == {"f1", "f2"}
FileStem == [f1 |-> <<"f", "1">>, f2 |-> <<"f", "2">>]
FileHash == [f1 |-> Rep("a", hash_len), f2 |-> Rep("b", hash_len)]

\* EntityManager._compute_file_hash
_compute_file_hash(file_path) == FileHash[file_path]

\* EntityManager._format_managed_asset_name
_format_managed_asset_name(name, hash_prefix) ==
    LET truncated == SubSeq(name, 1, Min(Len(name), max_name_len))
    IN  truncated \o <<":">> \o hash_prefix

NotManaged == [ok |-> FALSE, name |-> <<>>, hash |-> <<>>]

\* EntityManager._parse_managed_asset_name: re.match of ^(.+):([0-9a-f]{12})$
\* ('.' matches no line break, '$' also matches before a final line break)
_parse_managed_asset_name(asset_name) ==
    LET L == Len(asset_name)
        E == IF L > 0 /\ asset_name[L] = "\n" THEN L - 1 ELSE L
    IN  IF /\ E >= hash_len + 2
           /\ asset_name[E - hash_len] = ":"
           /\ \A i \in (E - hash_len + 1)..E : asset_name[i] \in HexDigits
           /\ \A i \in 1..(E - hash_len - 1) : asset_name[i] # "\n"
        THEN [ok |-> TRUE,
              name |-> SubSeq(asset_name, 1, E - hash_len - 1),
              hash |-> SubSeq(asset_name, E - hash_len + 1, E)]
        ELSE NotManaged

RECURSIVE _rewrite_image_srcs(_, _)
\* EntityManager._rewrite_image_srcs: for each (placeholder, cdn_url) of
\* url_map in order, every src equal to the placeholder becomes cdn_url
_rewrite_image_srcs(html, url_map) ==
    IF url_map = <<>> THEN html
    ELSE LET p == url_map[1].placeholder
             u == url_map[1].url
             once == [html EXCEPT !.h = [i \in 1..Len(html.h) |->
                                            IF html.h[i] = p THEN u
                                            ELSE html.h[i]]]
         IN  _rewrite_image_srcs(once, Tail(url_map))

----------------------------------------------------------------------------
(* The remote API, as the manager sees it: the envelope {data, links,      *)
(* meta}, one entity whose assets it stores, and the answers the           *)
(* environment chooses for one operation (its plan).                       *)

\* the entity whose assets the remote holds: type-specific id and universal id
TheEntity == [id |-> 1, entity_id |-> 2]

\* the asset as the API serialises it, and EntityAsset(**item)
AssetDoc(a) ==
    ("id" :> a.id) @@ ("entity_id" :> a.entity_id) @@ ("name" :> a.name)
    @@ ("type_id" :> a.type_id) @@ ("_url" :> a.url)
EntityAsset(item) ==
    [id |-> item["id"], entity_id |-> item["entity_id"], name |-> item["name"],
     type_id |-> item["type_id"], url |-> item["_url"]]

\* the CDN URL the remote derives for a file asset
CdnUrl(id) == <<"u">> \o IntToStr(id)

JsonAnswer(status, doc) ==
    [status_code |-> status, body |-> [kind |-> "json", doc |-> doc]]
BareAnswer(status) == [status_code |-> status, body |-> EmptyBody]

SeqIndexOf(seq, id) ==
    IF \E i \in 1..Len(seq) : seq[i].id = id
    THEN CHOOSE i \in 1..Len(seq) : seq[i].id = id
    ELSE 0
SeqRemove(seq, i) == SubSeq(seq, 1, i - 1) \o SubSeq(seq, i + 1, Len(seq))

\* one page of a listing
PageOf(seq, page, limit) ==
    SubSeq(seq, (page - 1) * limit + 1, Min(page * limit, Len(seq)))
PageEnvelope(seq, page, limit) ==
    [data |-> [i \in 1..Len(PageOf(seq, page, limit)) |->
                  AssetDoc(PageOf(seq, page, limit)[i])],
     links |-> [next |-> IF page * limit < Len(seq)
                         THEN PyStr(IntToStr(page + 1)) ELSE PyNone],
     meta |-> [total |-> PyInt(Len(seq))]]

\* entities/{entity_id}/entity_assets[/{asset_id}] on the remote
RemoteAssets(W, req) ==
    LET ep == req.url.endpoint
        same == [resp |-> BareAnswer(404), assets |-> W.assets,
                 assetIds |-> W.assetIds]
        i == SeqIndexOf(W.assets, ep.sub_id)
        fields == IF "data" \in DOMAIN req.kw THEN req.kw.data ELSE req.kw.json
        new == [id |-> W.assetIds + 1, entity_id |-> ep.id,
                name |-> fields.name.s, type_id |-> fields.type_id.n,
                url |-> IF fields.type_id.n = 1 /\ W.plan.url
                        THEN CdnUrl(W.assetIds + 1) ELSE <<>>]
    IN  IF ep.id # TheEntity.entity_id THEN same
        ELSE IF req.method = "GET" /\ ep.sub_id = 0
        THEN [same EXCEPT !.resp =
                 JsonAnswer(200, PageEnvelope(W.assets, req.kw.params.page.n,
                                              Min(req.kw.params.limit.n,
                                                  W.plan.cap)))]
        ELSE IF req.method = "POST"
        THEN [resp |-> JsonAnswer(200, [data |-> AssetDoc(new)]),
              assets |-> Append(W.assets, new), assetIds |-> W.assetIds + 1]
        ELSE IF i = 0 THEN same
        ELSE IF req.method = "DELETE"
        THEN [same EXCEPT !.resp = BareAnswer(204),
                          !.assets = SeqRemove(W.assets, i)]
        ELSE [same EXCEPT !.resp =
                 JsonAnswer(200, [data |-> AssetDoc(W.assets[i])])]

\* what the remote keeps once the request is served: under an echoing plan
\* it stores the body it receives, on the entity or on the post addressed
RemoteStored(W, req) ==
    LET ep == req.url.endpoint
        body == IF "json" \in DOMAIN req.kw THEN req.kw.json ELSE <<>>
    IN  IF ~W.plan.echo THEN W.stored
        ELSE IF ep.sub = "" /\ req.method = "POST"
        THEN [W.stored EXCEPT !.doc = DictUpdate(W.plan.data, body)]
        ELSE IF ep.sub = "" /\ req.method = "PATCH"
        THEN [W.stored EXCEPT !.doc = DictUpdate(@, body)]
        ELSE IF ep.sub = "posts" /\ req.method = "POST"
        THEN [W.stored EXCEPT !.posts =
                 Append(@, DictUpdate([id |-> PyInt(Len(@) + 1),
                                       entity_id |-> PyInt(ep.id)], body))]
        ELSE IF /\ ep.sub = "posts" /\ req.method = "PATCH"
                /\ ep.sub_id \in 1..Len(W.stored.posts)
        THEN [W.stored EXCEPT !.posts[ep.sub_id] = DictUpdate(@, body)]
        ELSE W.stored

\* the post document the remote answers with
PostAnswered(W, req) ==
    LET ep == req.url.endpoint
        posts == RemoteStored(W, req).posts
    IN  IF ~W.plan.echo THEN JsonAnswer(200, [data |-> W.plan.post])
        ELSE IF req.method = "POST"
        THEN JsonAnswer(200, [data |-> posts[Len(posts)]])
        ELSE IF ep.sub_id \in 1..Len(posts)
        THEN JsonAnswer(200, [data |-> posts[ep.sub_id]])
        ELSE BareAnswer(404)

\* the entity document the remote answers with
EntityAnswered(W, req) ==
    IF W.plan.echo THEN JsonAnswer(200, [data |-> RemoteStored(W, req).doc])
    ELSE JsonAnswer(200, [data |-> W.plan.data])

\* the answer to the idx-th request of the operation
RemoteAnswer(W, req, idx) ==
    LET ep == req.url.endpoint
        same == [resp |-> BareAnswer(W.plan.failStatus), assets |-> W.assets,
                 assetIds |-> W.assetIds]
    IN  IF W.plan.failAt = idx THEN same
        ELSE IF ep.sub = "entity_assets" THEN RemoteAssets(W, req)
        ELSE IF req.method = "DELETE" THEN [same EXCEPT !.resp = BareAnswer(204)]
        ELSE IF ep.sub = "posts" /\ req.method = "GET" /\ ep.sub_id = 0
        THEN [same EXCEPT !.resp = JsonAnswer(200, W.plan.posts)]
        ELSE IF ep.sub = "posts"
        THEN [same EXCEPT !.resp = PostAnswered(W, req)]
        ELSE IF ep.sub = "image"
        THEN [same EXCEPT !.resp = JsonAnswer(200, [data |-> W.plan.image])]
        ELSE IF ep.id = 0 /\ req.method = "GET"
        THEN [same EXCEPT !.resp = JsonAnswer(200, W.plan.page)]
        ELSE [same EXCEPT !.resp = EntityAnswered(W, req)]

----------------------------------------------------------------------------
(* One operation in progress: the requests sent so far, the instances      *)
(* built, the manager attributes, the remote, and the value or error of    *)
(* the statement executed last.                                            *)

Ok(W) == ~Raised(W.last)
Value(W) == W.last.value
Returning(W, v) == [W EXCEPT !.last = Return(v)]

\* statement sequencing: the rest K runs on the world the statement left,
\* unless the statement raised, and then the exception propagates
Then(W, K(_)) == IF Ok(W) THEN K(W) ELSE W

\* the request is on the wire, the remote has answered, _request maps it
Answered(W, req, ans) ==
    [W EXCEPT !.wire = Append(@, req),
              !.assets = ans.assets,
              !.assetIds = ans.assetIds,
              !.stored = IF ans.resp.status_code < 400
                         THEN RemoteStored(W, req) ELSE @,
              !.last = HandleResponse(req.method, req.url.endpoint, ans.resp)]

Sent(W, req) == Answered(W, req, RemoteAnswer(W, req, Len(W.wire) + 1))

\* self.client._request(method, endpoint, **kw)
Send(W, method, endpoint, kw) ==
    Sent(W, HttpRequest(W.client, method, endpoint, kw))

\* self.client._upload_request(method, endpoint, files=..., data=...):
\* a multipart request through the same session and the same error mapping
Upload(W, method, endpoint, files, data) ==
    Send(W, method, endpoint, [files |-> files, data |-> data])

\* self.model(**data): a new instance
Construct(W, defaults, data) ==
    [W EXCEPT !.objs = @ + 1,
              !.last = Return(ModelInit(defaults, data, W.objs + 1))]

----------------------------------------------------------------------------
(* EntityManager (src/kanka/managers.py of the later revision).            *)
(* A manager is its name, its endpoint and the defaults of its model; the  *)
(* attributes list() and its like set on it live in mgr[name].             *)

Manager(name) == [name |-> name, endpoint |-> name, model |-> CharacterDefaults]

\* getattr(self, attr, {})
AttrOr(attrs, attr) == IF attr \in DOMAIN attrs THEN attrs[attr] ELSE <<>>
\* response.get(key, {})
EnvelopeGet(doc, key) == IF key \in DOMAIN doc THEN doc[key] ELSE <<>>

\* EntityManager.pagination_meta / last_page_meta
pagination_meta(attrs) == AttrOr(attrs, "_last_meta")
\* EntityManager.pagination_links / last_page_links
pagination_links(attrs) == AttrOr(attrs, "_last_links")
\* the mutant of has_next_page that asks whether the links have a "next" key
HasNextKey(attrs) == "next" \in DOMAIN pagination_links(attrs)

\* EntityManager.has_next_page
has_next_page(attrs) == Truthy(DictGet(pagination_links(attrs), "next"))

\* a get() that answers from the instance the caller already holds
GetCached(W, m, id, related) ==
    IF /\ "fields" \in DOMAIN held
       /\ "id" \in DOMAIN held.fields
       /\ held.fields.id = PyInt(id)
    THEN Returning(W, held)
    ELSE Then(Send(W, "GET", Endpoint(m.endpoint, id, "", 0),
                   [params |-> IF related THEN [related |-> PyInt(1)]
                               ELSE <<>>]),
              LAMBDA W1 : Construct(W1, m.model, Value(W1).doc.data))

\* EntityManager.get
get(W, m, id, related) ==
    Then(Send(W, "GET", Endpoint(m.endpoint, id, "", 0),
              [params |-> IF related THEN [related |-> PyInt(1)] ELSE <<>>]),
         LAMBDA W1 : Construct(W1, m.model, Value(W1).doc.data))

\* the mutant of FilterParam that sends booleans as they are
FilterParamKeepBool(key, value) ==
    IF value.t \in {"list", "tuple"}
    THEN PyStr(Join([i \in 1..Len(value.l) |-> PyStrOf(value.l[i])], <<",">>))
    ELSE value

\* list(): the query parameter a filter that is not None becomes
FilterParam(key, value) ==
    IF key = "tags" /\ value.t = "list"
    THEN PyStr(Join([i \in 1..Len(value.l) |-> PyStrOf(value.l[i])], <<",">>))
    ELSE IF key = "types" /\ value.t = "list"
    THEN PyStr(Join([i \in 1..Len(value.l) |-> value.l[i].s], <<",">>))
    ELSE IF value.t = "bool"
    THEN PyInt(value.n)
    ELSE IF value.t \in {"list", "tuple"}
    THEN PyStr(Join([i \in 1..Len(value.l) |-> PyStrOf(value.l[i])], <<",">>))
    ELSE value

\* list(): params, from page, limit, related and the filters
ListParams(page, limit, related, filters) ==
    LET base == [page |-> PyInt(page), limit |-> PyInt(limit)]
        rel == IF related THEN DictSet(base, "related", PyInt(1)) ELSE base
        kept == {k \in DOMAIN filters : filters[k].t # "none"}
    IN  DictUpdate(rel, [k \in kept |-> FilterParam(k, filters[k])])

\* the mutant of StorePagination that merges into the stored dicts
StorePaginationMerged(attrs, response) ==
    DictUpdate(attrs,
        [_last_meta |-> DictUpdate(AttrOr(attrs, "_last_meta"),
                                   EnvelopeGet(response, "meta")),
         _last_links |-> DictUpdate(AttrOr(attrs, "_last_links"),
                                    EnvelopeGet(response, "links"))])

\* list(): self._last_meta = response.get("meta", {}), and the links
StorePagination(attrs, response) ==
    DictUpdate(attrs, [_last_meta |-> EnvelopeGet(response, "meta"),
                       _last_links |-> EnvelopeGet(response, "links")])

\* [model(**item) for item in response["data"]], KeyError without "data"
Instances(W, defaults, response) ==
    IF "data" \notin DOMAIN response
    THEN [W EXCEPT !.last = Raise("KeyError", NoMsg)]
    ELSE [W EXCEPT !.objs = @ + Len(response.data),
                   !.last = Return([i \in 1..Len(response.data) |->
                                ModelInit(defaults, response.data[i],
                                          W.objs + i)])]

\* EntityManager.list
list(W, m, page, limit, related, filters) ==
    Then(Send(W, "GET", Endpoint(m.endpoint, 0, "", 0),
              [params |-> ListParams(page, limit, related, filters)]),
         LAMBDA W1 :
             Instances([W1 EXCEPT !.mgr[m.name] =
                           StorePagination(@, Value(W1).doc)],
                       m.model, Value(W1).doc))

\* the mutant of _extract_entity_id that takes the type-specific id
ExtractTypeId(entity_or_id) ==
    IF entity_or_id.isint THEN entity_or_id.n
    ELSE entity_or_id.ent.fields.id.n

\* EntityManager._extract_entity_id
_extract_entity_id(entity_or_id) ==
    IF entity_or_id.isint THEN entity_or_id.n
    ELSE entity_or_id.ent.fields.entity_id.n

\* [EntityAsset(**item) for item in response["data"]]
AssetInstances(W, response) ==
    IF "data" \notin DOMAIN response
    THEN [W EXCEPT !.last = Raise("KeyError", NoMsg)]
    ELSE Returning(W, [i \in 1..Len(response.data) |->
                          EntityAsset(response.data[i])])

\* EntityManager.list_assets
list_assets(W, m, entity_or_id, page, limit) ==
    Then(Send(W, "GET",
              Endpoint("entities", _extract_entity_id(entity_or_id),
                       "entity_assets", 0),
              [params |-> [page |-> PyInt(page), limit |-> PyInt(limit)]]),
         LAMBDA W1 :
             AssetInstances(
                 [W1 EXCEPT !.mgr[m.name] =
                     DictUpdate(@, [_last_assets_meta |->
                                        EnvelopeGet(Value(W1).doc, "meta"),
                                    _last_assets_links |->
                                        EnvelopeGet(Value(W1).doc, "links")])],
                 Value(W1).doc))

\* EntityManager.get_asset
get_asset(W, m, entity_or_id, asset_id) ==
    Then(Send(W, "GET",
              Endpoint("entities", _extract_entity_id(entity_or_id),
                       "entity_assets", asset_id), <<>>),
         LAMBDA W1 : Returning(W1, EntityAsset(Value(W1).doc.data)))

\* data["visibility_id"] = visibility_id, only when one is given
WithVisibility(data, visibility_id) ==
    IF visibility_id.t # "none" THEN DictSet(data, "visibility_id", visibility_id)
    ELSE data

\* EntityManager.create_file_asset
create_file_asset(W, m, entity_or_id, file_path, name, visibility_id, is_pinned) ==
    LET data0 == [type_id |-> PyInt(1),
                  name |-> IF Truthy(name) THEN name
                           ELSE PyStr(FileStem[file_path])]
        data == DictSet(WithVisibility(data0, visibility_id), "is_pinned",
                        PyInt(IF is_pinned THEN 1 ELSE 0))
    IN  Then(Upload(W, "POST",
                    Endpoint("entities", _extract_entity_id(entity_or_id),
                             "entity_assets", 0),
                    [file |-> file_path], data),
             LAMBDA W1 : Returning(W1, EntityAsset(Value(W1).doc.data)))

\* EntityManager.create_link_asset
create_link_asset(W, m, entity_or_id, name, link, icon, visibility_id) ==
    LET metadata == IF icon.t # "none" THEN [url |-> link, icon |-> icon]
                    ELSE [url |-> link]
        data == WithVisibility([type_id |-> PyInt(2), name |-> name,
                                metadata |-> metadata], visibility_id)
    IN  Then(Send(W, "POST",
                  Endpoint("entities", _extract_entity_id(entity_or_id),
                           "entity_assets", 0),
                  [json |-> data]),
             LAMBDA W1 : Returning(W1, EntityAsset(Value(W1).doc.data)))

\* EntityManager.create_alias_asset
create_alias_asset(W, m, entity_or_id, name, visibility_id) ==
    LET data == WithVisibility([type_id |-> PyInt(3), name |-> name],
                               visibility_id)
    IN  Then(Send(W, "POST",
                  Endpoint("entities", _extract_entity_id(entity_or_id),
                           "entity_assets", 0),
                  [json |-> data]),
             LAMBDA W1 : Returning(W1, EntityAsset(Value(W1).doc.data)))

\* EntityManager.delete_asset
delete_asset(W, m, entity_or_id, asset_id) ==
    Then(Send(W, "DELETE",
              Endpoint("entities", _extract_entity_id(entity_or_id),
                       "entity_assets", asset_id), <<>>),
         LAMBDA W1 : Returning(W1, TRUE))

----------------------------------------------------------------------------
(* The managed-image layer. An images mapping and the dicts the code       *)
(* builds keep their insertion order: they are sequences of items with     *)
(* distinct keys.                                                          *)

HasKey(items, key) == \E i \in 1..Len(items) : items[i].key = key
ItemOf(items, key) == items[CHOOSE i \in 1..Len(items) : items[i].key = key]
\* items[key] = item: in place when the key exists, appended otherwise
ItemPut(items, item) ==
    IF HasKey(items, item.key)
    THEN [i \in 1..Len(items) |->
             IF items[i].key = item.key THEN item ELSE items[i]]
    ELSE Append(items, item)

\* url_map[placeholder] = asset.url, if asset.url
UrlMapped(url_map, placeholder, asset) ==
    IF asset.url # <<>>
    THEN ItemPut(url_map, [key |-> placeholder, placeholder |-> placeholder,
                           url |-> asset.url])
    ELSE url_map

\* not entry: None or the empty string
NoEntry(entry) == ~Truthy(entry)

\* if url_map: return self._rewrite_image_srcs(entry, url_map); return entry
Rewritten(entry, url_map) ==
    IF url_map # <<>> THEN _rewrite_image_srcs(entry, url_map) ELSE entry

RECURSIVE CreateImagesLoop(_, _, _, _, _)
\* _process_images_for_create: the loop over images.items(); it leaves
\* url_map as the value
CreateImagesLoop(W, m, entity_id, images, url_map) ==
    IF images = <<>> THEN Returning(W, url_map)
    ELSE Then(create_file_asset(
                  W, m, ById(entity_id), images[1].file,
                  PyStr(_format_managed_asset_name(
                            images[1].key, _compute_file_hash(images[1].file))),
                  PyNone, FALSE),
              LAMBDA W1 :
                  CreateImagesLoop(W1, m, entity_id, Tail(images),
                                   UrlMapped(url_map, images[1].key, Value(W1))))

\* a _process_images_for_create that uploads whether or not there is an
\* entry to rewrite
ProcessImagesWithoutEntry(W, m, entity_id, entry, images) ==
    IF images = <<>> THEN Returning(W, entry)
    ELSE Then(CreateImagesLoop(W, m, entity_id, images, <<>>),
              LAMBDA W1 :
                  Returning(W1, IF NoEntry(entry) THEN entry
                                ELSE Rewritten(entry, Value(W1))))

\* EntityManager._process_images_for_create
_process_images_for_create(W, m, entity_id, entry, images) ==
    IF images = <<>> \/ NoEntry(entry) THEN Returning(W, entry)
    ELSE Then(CreateImagesLoop(W, m, entity_id, images, <<>>),
              LAMBDA W1 : Returning(W1, Rewritten(entry, Value(W1))))

RECURSIVE ManagedOf(_, _)
\* _process_images_for_update: managed[name_part] = (hash_part, asset) for
\* every existing asset whose name parses
ManagedOf(existing_assets, managed) ==
    IF existing_assets = <<>> THEN managed
    ELSE LET asset == existing_assets[1]
             parsed == _parse_managed_asset_name(asset.name)
         IN  ManagedOf(Tail(existing_assets),
                       IF parsed.ok
                       THEN ItemPut(managed, [key |-> parsed.name,
                                              hash |-> parsed.hash,
                                              asset |-> asset])
                       ELSE managed)

RECURSIVE UpdateImagesLoop(_, _, _, _, _, _, _)
\* _process_images_for_update: the loop over images.items(); it leaves
\* url_map and used_names as the value
UpdateImagesLoop(W, m, entity_id, managed, images, url_map, used_names) ==
    IF images = <<>>
    THEN Returning(W, [url_map |-> url_map, used_names |-> used_names])
    ELSE LET placeholder == images[1].key
             file_path == images[1].file
             file_hash == _compute_file_hash(file_path)
             used == used_names \cup {placeholder}
             known == HasKey(managed, placeholder)
             old == ItemOf(managed, placeholder)
             managed_name == _format_managed_asset_name(placeholder, file_hash)
         IN  IF known /\ old.hash = file_hash
             THEN UpdateImagesLoop(W, m, entity_id, managed, Tail(images),
                                   UrlMapped(url_map, placeholder, old.asset),
                                   used)
             ELSE Then(IF known
                       THEN delete_asset(W, m, ById(entity_id), old.asset.id)
                       ELSE Returning(W, TRUE),
                       LAMBDA W1 :
                  Then(create_file_asset(W1, m, ById(entity_id), file_path,
                                         PyStr(managed_name), PyNone, FALSE),
                       LAMBDA W2 :
                           UpdateImagesLoop(
                               W2, m, entity_id, managed, Tail(images),
                               UrlMapped(url_map, placeholder, Value(W2)),
                               used)))

RECURSIVE OrphanCleanup(_, _, _, _, _)
\* _process_images_for_update: delete the managed assets not in used_names
OrphanCleanup(W, m, entity_id, managed, used_names) ==
    IF managed = <<>> THEN Returning(W, TRUE)
    ELSE Then(IF managed[1].key \notin used_names
              THEN delete_asset(W, m, ById(entity_id), managed[1].asset.id)
              ELSE Returning(W, TRUE),
              LAMBDA W1 :
                  OrphanCleanup(W1, m, entity_id, Tail(managed), used_names))

\* _process_images_for_update, once the existing assets are listed
ReconcileImages(W, m, entity_id, entry, images, managed) ==
    Then(UpdateImagesLoop(W, m, entity_id, managed, images, <<>>, {}),
         LAMBDA W1 :
    Then(OrphanCleanup(W1, m, entity_id, managed, Value(W1).used_names),
         LAMBDA W2 : Returning(W2, Rewritten(entry, Value(W1).url_map))))

\* a _process_images_for_update that goes on without the assets when their
\* listing fails
ProcessImagesUnlisted(W, m, entity_id, entry, images) ==
    IF images = <<>> \/ NoEntry(entry) THEN Returning(W, entry)
    ELSE IF Ok(list_assets(W, m, ById(entity_id), 1, 30))
    THEN Then(list_assets(W, m, ById(entity_id), 1, 30),
              LAMBDA W1 :
                  ReconcileImages(W1, m, entity_id, entry, images,
                                  ManagedOf(Value(W1), <<>>)))
    ELSE Returning([list_assets(W, m, ById(entity_id), 1, 30)
                        EXCEPT !.last = Return(TRUE)], entry)

\* a _process_images_for_update that reads two pages of the listing
ProcessImagesTwoPages(W, m, entity_id, entry, images) ==
    IF images = <<>> \/ NoEntry(entry) THEN Returning(W, entry)
    ELSE Then(list_assets(W, m, ById(entity_id), 1, 30),
              LAMBDA W1 :
         Then(list_assets(W1, m, ById(entity_id), 2, 30),
              LAMBDA W2 :
                  ReconcileImages(W2, m, entity_id, entry, images,
                                  ManagedOf(Value(W1) \o Value(W2), <<>>))))

\* EntityManager._process_images_for_update
_process_images_for_update(W, m, entity_id, entry, images) ==
    IF images = <<>> \/ NoEntry(entry) THEN Returning(W, entry)
    ELSE Then(list_assets(W, m, ById(entity_id), 1, 30),
              LAMBDA W1 :
                  ReconcileImages(W1, m, entity_id, entry, images,
                                  ManagedOf(Value(W1), <<>>)))

----------------------------------------------------------------------------
(* create, update, delete.                                                 *)

\* the mutant of CreatePayload that sends the fields as given
CreatePayloadUnstripped(kwargs) == kwargs

\* a create() that sends only the fields with the name of a model field
CreatePayloadDeclared(kwargs) ==
    DictWithout(kwargs, ServerAssigned \cup {"custom"})

\* create(): data = kwargs.copy(), then data.pop(field, None) for the six
CreatePayload(kwargs) == DictWithout(kwargs, ServerAssigned)

\* create(): the part under "if images", for the entity just built
ImagesOfCreate(W, m, entity, images) ==
    Then(_process_images_for_create(W, m, entity.fields.entity_id.n,
                                    entity.fields.entry, images),
         LAMBDA W1 :
             IF Truthy(Value(W1)) /\ Value(W1) # entity.fields.entry
             THEN Then(Send(W1, "PATCH",
                            Endpoint(m.endpoint, entity.fields.id.n, "", 0),
                            [json |-> [entry |-> Value(W1)]]),
                       LAMBDA W2 : Construct(W2, m.model, Value(W2).doc.data))
             ELSE Returning(W1, entity))

\* EntityManager.create
create(W, m, images, kwargs) ==
    Then(Send(W, "POST", Endpoint(m.endpoint, 0, "", 0),
              [json |-> CreatePayload(kwargs)]),
         LAMBDA W1 :
    Then(Construct(W1, m.model, Value(W1).doc.data),
         LAMBDA W2 :
             IF images # <<>> THEN ImagesOfCreate(W2, m, Value(W2), images)
             ELSE W2))

\* the mutant of ChangedFields that keeps every supplied field
ChangedFieldsAll(entity, kwargs) ==
    model_dump(model_copy(entity, kwargs), TRUE, {})

\* a second mutant of ChangedFields: it compares nothing
ChangedFieldsUndiffed(entity, kwargs) ==
    DictWithout(kwargs, ServerAssigned)

\* update(), entity given: the dump of the copy without the server-assigned
\* fields, then only the fields that actually changed
ChangedFields(entity, kwargs) ==
    LET updates == model_copy(entity, kwargs)
        data == model_dump(updates, TRUE, ServerAssigned)
        original_data == model_dump(entity, FALSE, ServerAssigned)
    IN  [k \in {k \in DOMAIN data :
                    k \notin DOMAIN original_data
                    \/ ~PyEq(original_data[k], data[k])} |-> data[k]]

\* the mutant of GivenFields that strips the server-assigned fields
GivenFieldsStripped(kwargs) == DictWithout(kwargs, ServerAssigned)

\* update(), id given: data = kwargs
GivenFields(kwargs) == kwargs

\* update(), under "if images": the entry from data, from the entity object,
\* or from a fetch
EntryOfUpdate(W, m, entity_or_id, entity_id, data) ==
    LET entry0 == DictGet(data, "entry")
        entry1 == IF entry0.t = "none" /\ ~entity_or_id.isint
                  THEN entity_or_id.ent.fields.entry
                  ELSE entry0
    IN  IF entry1.t = "none"
        THEN Then(get(W, m, entity_id, FALSE),
                  LAMBDA W1 : Returning(W1, Value(W1).fields.entry))
        ELSE Returning(W, entry1)

\* update(), under "if images", once eid is known; it leaves data as the value
ImagesOfUpdate(W, m, entity_or_id, entity_id, eid, images, data) ==
    Then(EntryOfUpdate(W, m, entity_or_id, entity_id, data),
         LAMBDA W1 :
    Then(_process_images_for_update(W1, m, eid, Value(W1), images),
         LAMBDA W2 :
             Returning(W2, IF Value(W2).t # "none"
                           THEN DictSet(data, "entry", Value(W2))
                           ELSE data)))

\* update(), under "if images": eid from a fetch when only the id is given
EidOfUpdate(W, m, entity_or_id) ==
    IF entity_or_id.isint
    THEN Then(get(W, m, entity_or_id.n, FALSE),
              LAMBDA W1 :
                  Returning(W1, _extract_entity_id(ByObject(Value(W1)))))
    ELSE Returning(W, entity_or_id.ent.fields.entity_id.n)

\* update(): "if not data" and the PATCH
SendUpdate(W, m, entity_or_id, entity_id, data) ==
    IF data = <<>>
    THEN IF entity_or_id.isint THEN get(W, m, entity_id, FALSE)
         ELSE Returning(W, entity_or_id.ent)
    ELSE Then(Send(W, "PATCH", Endpoint(m.endpoint, entity_id, "", 0),
                   [json |-> data]),
              LAMBDA W1 : Construct(W1, m.model, Value(W1).doc.data))

\* EntityManager.update
update(W, m, entity_or_id, images, kwargs) ==
    LET entity_id == IF entity_or_id.isint THEN entity_or_id.n
                     ELSE entity_or_id.ent.fields.id.n
        data == IF entity_or_id.isint THEN GivenFields(kwargs)
                ELSE ChangedFields(entity_or_id.ent, kwargs)
    IN  IF images # <<>>
        THEN Then(EidOfUpdate(W, m, entity_or_id),
                  LAMBDA W1 :
             Then(ImagesOfUpdate(W1, m, entity_or_id, entity_id, Value(W1),
                                 images, data),
                  LAMBDA W2 :
                      SendUpdate(W2, m, entity_or_id, entity_id, Value(W2))))
        ELSE SendUpdate(W, m, entity_or_id, entity_id, data)

\* EntityManager.delete
delete(W, m, entity_or_id) ==
    Then(Send(W, "DELETE",
              Endpoint(m.endpoint,
                       IF entity_or_id.isint THEN entity_or_id.n
                       ELSE entity_or_id.ent.fields.id.n, "", 0),
              <<>>),
         LAMBDA W1 : Returning(W1, TRUE))

----------------------------------------------------------------------------
(* Posts and the entity image.                                             *)

\* Post: the field with a default
PostDefaults == [is_private |-> PyBool(FALSE)]

\* the mutant of list_posts that stores its envelope where list() does
ListPostsIntoList(W, m, entity_or_id, page, limit) ==
    Then(Send(W, "GET",
              Endpoint("entities", _extract_entity_id(entity_or_id), "posts", 0),
              [params |-> [page |-> PyInt(page), limit |-> PyInt(limit)]]),
         LAMBDA W1 :
             Instances([W1 EXCEPT !.mgr[m.name] =
                           StorePagination(@, Value(W1).doc)],
                       PostDefaults, Value(W1).doc))

\* EntityManager.list_posts
list_posts(W, m, entity_or_id, page, limit) ==
    Then(Send(W, "GET",
              Endpoint("entities", _extract_entity_id(entity_or_id), "posts", 0),
              [params |-> [page |-> PyInt(page), limit |-> PyInt(limit)]]),
         LAMBDA W1 :
             Instances(
                 [W1 EXCEPT !.mgr[m.name] =
                     DictUpdate(@, [_last_posts_meta |->
                                        EnvelopeGet(Value(W1).doc, "meta"),
                                    _last_posts_links |->
                                        EnvelopeGet(Value(W1).doc, "links")])],
                 PostDefaults, Value(W1).doc))

\* EntityManager.get_post
get_post(W, m, entity_or_id, post_id) ==
    Then(Send(W, "GET",
              Endpoint("entities", _extract_entity_id(entity_or_id),
                       "posts", post_id), <<>>),
         LAMBDA W1 : Construct(W1, PostDefaults, Value(W1).doc.data))

\* create_post(): entry after "if images"
EntryOfCreatePost(W, m, entity_id, entry, images) ==
    IF images # <<>>
    THEN Then(_process_images_for_create(W, m, entity_id, entry, images),
              LAMBDA W1 :
                  Returning(W1, IF Value(W1).t # "none" THEN Value(W1)
                                ELSE entry))
    ELSE Returning(W, entry)

\* EntityManager.create_post
create_post(W, m, entity_or_id, name, entry, images, visibility_id, kwargs) ==
    Then(EntryOfCreatePost(W, m, _extract_entity_id(entity_or_id), entry,
                           images),
         LAMBDA W1 :
    Then(Send(W1, "POST",
              Endpoint("entities", _extract_entity_id(entity_or_id), "posts", 0),
              [json |-> WithVisibility(
                            DictUpdate([name |-> name, entry |-> Value(W1)],
                                       kwargs),
                            visibility_id)]),
         LAMBDA W2 : Construct(W2, PostDefaults, Value(W2).doc.data)))

\* an update_post that fetches the post even when an entry is supplied
EntryOfUpdatePostFetching(W, m, entity_or_id, post_id, kwargs) ==
    Then(get_post(W, m, entity_or_id, post_id),
         LAMBDA W1 :
             Returning(W1, IF DictGet(kwargs, "entry").t = "none"
                           THEN Value(W1).fields.entry ELSE kwargs.entry))

\* update_post(), under "if images": the entry from kwargs or from a fetch
EntryOfUpdatePost(W, m, entity_or_id, post_id, kwargs) ==
    IF DictGet(kwargs, "entry").t = "none"
    THEN Then(get_post(W, m, entity_or_id, post_id),
              LAMBDA W1 : Returning(W1, Value(W1).fields.entry))
    ELSE Returning(W, kwargs.entry)

\* update_post(): kwargs after "if images"
ImagesOfUpdatePost(W, m, entity_or_id, post_id, images, kwargs) ==
    Then(EntryOfUpdatePost(W, m, entity_or_id, post_id, kwargs),
         LAMBDA W1 :
    Then(_process_images_for_update(W1, m, _extract_entity_id(entity_or_id),
                                    Value(W1), images),
         LAMBDA W2 :
             Returning(W2, IF Value(W2).t # "none"
                           THEN DictSet(kwargs, "entry", Value(W2))
                           ELSE kwargs)))

\* EntityManager.update_post
update_post(W, m, entity_or_id, post_id, images, visibility_id, kwargs) ==
    Then(IF images # <<>>
         THEN ImagesOfUpdatePost(W, m, entity_or_id, post_id, images, kwargs)
         ELSE Returning(W, kwargs),
         LAMBDA W1 :
    Then(Send(W1, "PATCH",
              Endpoint("entities", _extract_entity_id(entity_or_id),
                       "posts", post_id),
              [json |-> WithVisibility(Value(W1), visibility_id)]),
         LAMBDA W2 : Construct(W2, PostDefaults, Value(W2).doc.data)))

\* EntityManager.delete_post
delete_post(W, m, entity_or_id, post_id) ==
    Then(Send(W, "DELETE",
              Endpoint("entities", _extract_entity_id(entity_or_id),
                       "posts", post_id), <<>>),
         LAMBDA W1 : Returning(W1, TRUE))

\* EntityManager.get_image
get_image(W, m, entity_or_id) ==
    Then(Send(W, "GET",
              Endpoint("entities", _extract_entity_id(entity_or_id), "image", 0),
              <<>>),
         LAMBDA W1 : Returning(W1, Value(W1).doc.data))

\* EntityManager.set_image
set_image(W, m, entity_or_id, file_path, is_header) ==
    Then(Upload(W, "POST",
                Endpoint("entities", _extract_entity_id(entity_or_id),
                         "image", 0),
                [file |-> file_path],
                IF is_header THEN [is_header |-> PyInt(1)] ELSE <<>>),
         LAMBDA W1 : Returning(W1, Value(W1).doc.data))

\* EntityManager.delete_image
delete_image(W, m, entity_or_id, is_header) ==
    Then(Send(W, "DELETE",
              Endpoint("entities", _extract_entity_id(entity_or_id), "image", 0),
              [params |-> IF is_header THEN [is_header |-> PyInt(1)]
                          ELSE <<>>]),
         LAMBDA W1 : Returning(W1, TRUE))

----------------------------------------------------------------------------
(* What the environment supplies: the documents the remote answers with    *)
(* and the plan of one operation.                                          *)

\* two entities as the API serialises them: the same ids, different fields
DocA ==
    [id |-> PyInt(TheEntity.id), entity_id |-> PyInt(TheEntity.entity_id),
     name |-> PyStr(<<"a">>),
     created_at |-> PyStr(<<"a">>), created_by |-> PyInt(1),
     updated_at |-> PyStr(<<"a">>), updated_by |-> PyInt(1)]
DocB ==
    DictUpdate(DocA, [name |-> PyStr(<<"b">>), is_private |-> PyBool(TRUE),
                      custom |-> PyStr(<<"a">>)])

\* a post as the API serialises it
PostDoc ==
    [id |-> PyInt(1), entity_id |-> PyInt(TheEntity.entity_id),
     name |-> PyStr(<<"a">>), entry |-> PyNone]

\* the plan in which every request succeeds; the remote serves at most
\* `cap` assets on a page
DefaultPlan ==
    [failAt |-> 0, failStatus |-> 500, url |-> TRUE, echo |-> FALSE,
     data |-> DocA,
     page |-> [data |-> <<DocA>>], post |-> PostDoc,
     posts |-> [data |-> <<PostDoc>>, meta |-> [total |-> PyInt(7)],
                links |-> [next |-> PyNone]],
     image |-> <<>>, cap |-> 30]

\* the plan in which the idx-th request is answered with an error status
FailingPlan(idx, status) ==
    [DefaultPlan EXCEPT !.failAt = idx, !.failStatus = status]

\* an operation starts: nothing sent, the caller's entity the one instance
World(plan) ==
    [client |-> client, plan |-> plan, wire |-> <<>>, objs |-> 1,
     mgr |-> mgr, assets |-> assets, assetIds |-> assetIds,
     stored |-> stored, last |-> Return(TRUE)]

\* an operation ends: what it sent, returned or raised, and changed
Commit(c, W) ==
    /\ call' = c
    /\ wire' = W.wire
    /\ outcome' = W.last
    /\ mgr' = W.mgr
    /\ assets' = W.assets
    /\ assetIds' = W.assetIds
    /\ stored' = W.stored
    /\ UNCHANGED client

\* the caller keeps the instance an operation returned
Keep(W) ==
    held' = IF Ok(W) THEN [Value(W) EXCEPT !.oid = 1] ELSE held

\* the remote keeps the entity and one post of it
InitialStore == [doc |-> DocA, posts |-> <<PostDoc>>]

InitManagers ==
    /\ client = NewClient("t1", 123)
    /\ InitRest
    /\ stored = InitialStore

----------------------------------------------------------------------------
(* get / create / update / delete on one manager, without images.          *)

\* the keyword fields a caller passes: a field of the model, one with a
\* default, a server-assigned one and one the model does not declare
KwChoices ==
    [name |-> {PyStr(<<"a">>), PyStr(<<"b">>)},
     is_private |-> {PyBool(FALSE), PyBool(TRUE), PyInt(0)},
     created_at |-> {PyStr(<<"a">>), PyStr(<<"b">>)},
     custom |-> {PyStr(<<"a">>)}]
Kwargs == DictsOver(KwChoices, MaxKw)

CrudPlans ==
    {[DefaultPlan EXCEPT !.data = d] : d \in {DocA, DocB}}
    \cup {FailingPlan(1, 422)}

Characters == Manager("characters")

\* client.characters.get(id)
Get ==
    \E plan \in CrudPlans, related \in BOOLEAN :
        LET W == get(World(plan), Characters, TheEntity.id, related) IN
        /\ Commit([op |-> "get", id |-> TheEntity.id, related |-> related,
                   plan |-> plan], W)
        /\ Keep(W)
        /\ UNCHANGED <<lastOk, before>>

\* client.characters.create(**kwargs)
Create ==
    \E plan \in CrudPlans, kwargs \in Kwargs :
        LET W == create(World(plan), Characters, <<>>, kwargs) IN
        /\ Commit([op |-> "create", images |-> <<>>, kwargs |-> kwargs,
                   plan |-> plan], W)
        /\ Keep(W)
        /\ UNCHANGED <<lastOk, before>>

\* client.characters.update(entity, **kwargs) with the entity the caller holds
UpdateObject ==
    /\ held # NoEntity
    /\ \E plan \in CrudPlans, kwargs \in Kwargs :
        LET W == update(World(plan), Characters, ByObject(held), <<>>, kwargs) IN
        /\ Commit([op |-> "update", entity_or_id |-> ByObject(held),
                   images |-> <<>>, kwargs |-> kwargs, plan |-> plan], W)
        /\ UNCHANGED <<held, lastOk, before>>

\* client.characters.update(id, **kwargs)
UpdateById ==
    \E plan \in CrudPlans, kwargs \in Kwargs :
        LET W == update(World(plan), Characters, ById(TheEntity.id), <<>>,
                        kwargs) IN
        /\ Commit([op |-> "update", entity_or_id |-> ById(TheEntity.id),
                   images |-> <<>>, kwargs |-> kwargs, plan |-> plan], W)
        /\ UNCHANGED <<held, lastOk, before>>

\* client.characters.delete(entity_or_id)
Delete ==
    \E plan \in CrudPlans, byId \in BOOLEAN :
        /\ byId \/ held # NoEntity
        /\ LET entity_or_id == IF byId THEN ById(TheEntity.id)
                               ELSE ByObject(held)
               W == delete(World(plan), Characters, entity_or_id)
           IN  /\ Commit([op |-> "delete", entity_or_id |-> entity_or_id,
                          plan |-> plan], W)
               /\ UNCHANGED <<held, lastOk, before>>

NextCrud == Get \/ Create \/ UpdateObject \/ UpdateById \/ Delete

SpecCrud == InitManagers /\ [][NextCrud]_vars

----------------------------------------------------------------------------
(* C2 - C5: what update and create put on the wire.                        *)

\* update(entity, **kwargs) without images was the last call
UpdatedObject ==
    /\ call.op = "update"
    /\ ~call.entity_or_id.isint
    /\ call.images = <<>>

\* the entity has the field and the supplied value equals its current one
SameValue(e, kwargs, k) ==
    k \in DOMAIN e.fields /\ PyEq(e.fields[k], kwargs[k])

\* the one request on the wire is this method to this endpoint
OneRequest(method, endpoint) ==
    /\ Len(wire) = 1
    /\ wire[1].method = method
    /\ wire[1].url = [base |-> "https://api.kanka.io/1.0",
                      campaign |-> client.campaign_id, endpoint |-> endpoint]

\* C2: for every entity object e and every set of keyword fields whose values
\* all equal e's current values (the empty set included), update(e, **fields)
\* without images issues no HTTP request and returns e itself, unchanged.
C2_NoChangeNoRequest ==
    (/\ UpdatedObject
     /\ \A k \in DOMAIN call.kwargs :
            SameValue(call.entity_or_id.ent, call.kwargs, k))
    => /\ wire = <<>>
       /\ ~Raised(outcome)
       /\ outcome.value = call.entity_or_id.ent

\* update with one field at its current value and another equal to it across
\* types (False and 0) came back with the entity and sent nothing
C2_Witness ==
    /\ UpdatedObject
    /\ call.kwargs = [name |-> call.entity_or_id.ent.fields.name,
                      is_private |-> PyInt(0)]
    /\ call.entity_or_id.ent.fields.is_private = PyBool(FALSE)
    /\ wire = <<>>
    /\ outcome = Return(held)

\* the supplied fields whose value differs from the entity's
Differing(e, kwargs) ==
    {k \in DOMAIN kwargs : ~SameValue(e, kwargs, k)}

\* C3 as stated: for every entity object e and keyword fields of which at
\* least one differs from e's current value, update(e, **fields) issues
\* exactly one request, a PATCH to {endpoint}/{e.id}, whose JSON body is
\* exactly the supplied fields that differ, and never holds id, entity_id,
\* created_at, created_by, updated_at or updated_by.
C3_AsStated ==
    (UpdatedObject /\ Differing(call.entity_or_id.ent, call.kwargs) # {})
    => LET e == call.entity_or_id.ent
           changed == Differing(e, call.kwargs)
       IN  /\ OneRequest("PATCH", [root |-> "characters", id |-> e.fields.id.n,
                                   sub |-> "", sub_id |-> 0])
           /\ wire[1].kw.json = [k \in changed |-> call.kwargs[k]]
           /\ DOMAIN wire[1].kw.json
                  \cap {"id", "entity_id", "created_at", "created_by",
                        "updated_at", "updated_by"} = {}

\* C3 (amended): the six server-assigned fields are left out of the
\* comparison. When a supplied field other than those six differs from e's
\* value, update(e, **fields) issues exactly one request, a PATCH to
\* {endpoint}/{e.id}, whose JSON body is exactly the supplied fields, other
\* than the six, whose value differs; when only server-assigned fields
\* differ, no request is issued and e is returned.
C3_ChangedFieldsOnly ==
    UpdatedObject
    => LET e == call.entity_or_id.ent
           changed == Differing(e, call.kwargs)
                          \ {"id", "entity_id", "created_at", "created_by",
                             "updated_at", "updated_by"}
       IN  IF changed # {}
           THEN /\ OneRequest("PATCH",
                              [root |-> "characters", id |-> e.fields.id.n,
                               sub |-> "", sub_id |-> 0])
                /\ wire[1].kw.json = [k \in changed |-> call.kwargs[k]]
           ELSE wire = <<>> /\ outcome = Return(e)

\* update with a changed name, an unchanged is_private: the PATCH carries the
\* name alone
C3_Witness ==
    /\ UpdatedObject
    /\ call.entity_or_id.ent.fields.name = PyStr(<<"a">>)
    /\ call.entity_or_id.ent.fields.is_private = PyBool(FALSE)
    /\ call.kwargs = [name |-> PyStr(<<"b">>), is_private |-> PyBool(FALSE)]
    /\ Len(wire) = 1
    /\ wire[1].method = "PATCH"
    /\ wire[1].kw.json = [name |-> PyStr(<<"b">>)]

\* C4: update with a raw integer id and a non-empty set of fields (no images)
\* issues exactly one request, a PATCH to {endpoint}/{id}, no GET before it,
\* and the JSON body is the supplied fields verbatim, server-assigned names
\* such as created_at included.
C4_ByIdVerbatim ==
    (/\ call.op = "update"
     /\ call.entity_or_id.isint
     /\ call.images = <<>>
     /\ call.kwargs # <<>>)
    => /\ OneRequest("PATCH", [root |-> "characters",
                               id |-> call.entity_or_id.n,
                               sub |-> "", sub_id |-> 0])
       /\ wire[1].kw.json = call.kwargs

\* update by id with created_at among the fields sent it as given
C4_Witness ==
    /\ call.op = "update"
    /\ call.entity_or_id.isint
    /\ call.kwargs = [created_at |-> PyStr(<<"b">>), name |-> PyStr(<<"a">>)]
    /\ Len(wire) = 1
    /\ wire[1].method = "PATCH"
    /\ "created_at" \in DOMAIN wire[1].kw.json

\* C5: for every set of keyword fields passed to create, the JSON body of the
\* POST to {endpoint} is the supplied fields minus id, entity_id, created_at,
\* created_by, updated_at and updated_by, every other key with its value
\* unchanged, and the entity returned is built from the response body.
C5_CreatePayload ==
    call.op = "create"
    => LET sent == DOMAIN call.kwargs
                       \ {"id", "entity_id", "created_at", "created_by",
                          "updated_at", "updated_by"}
       IN  /\ OneRequest("POST", [root |-> "characters", id |-> 0,
                                  sub |-> "", sub_id |-> 0])
           /\ wire[1].kw.json = [k \in sent |-> call.kwargs[k]]
           /\ IF call.plan.failAt = 1
              THEN Raised(outcome)
              ELSE /\ ~Raised(outcome)
                   /\ outcome.value.set = DOMAIN call.plan.data
                   /\ \A k \in DOMAIN call.plan.data :
                          outcome.value.fields[k] = call.plan.data[k]

\* create with a name and a created_at: the POST carries the name alone and
\* the entity returned has the name of the response, not the one passed
C5_Witness ==
    /\ call.op = "create"
    /\ call.kwargs = [created_at |-> PyStr(<<"b">>), name |-> PyStr(<<"b">>)]
    /\ call.plan.failAt = 0
    /\ call.plan.data.name = PyStr(<<"a">>)
    /\ wire[1].kw.json = [name |-> PyStr(<<"b">>)]
    /\ ~Raised(outcome)
    /\ outcome.value.fields.name = PyStr(<<"a">>)

----------------------------------------------------------------------------
(* list(): the filters, and the pagination attributes of each manager.     *)

\* client.<m>.list(page, limit, related, **filters), for the calls given;
\* the envelope of a non-error answer is what was last seen for m
List(calls) ==
    \E c \in calls :
        LET W == list(World(c.plan), Manager(c.m), c.page, c.limit, c.related,
                      c.filters) IN
        /\ Commit([op |-> "list", m |-> c.m, page |-> c.page,
                   limit |-> c.limit, related |-> c.related,
                   filters |-> c.filters, plan |-> c.plan], W)
        /\ lastOk' = IF c.plan.failAt = 1 THEN lastOk
                     ELSE [lastOk EXCEPT ![c.m] =
                              [seen |-> TRUE,
                               meta |-> IF "meta" \in DOMAIN c.plan.page
                                        THEN c.plan.page.meta ELSE <<>>,
                               links |-> IF "links" \in DOMAIN c.plan.page
                                         THEN c.plan.page.links ELSE <<>>]]
        /\ UNCHANGED <<held, before>>

\* the filters a caller passes: ids in a list or a tuple, names in a list,
\* a boolean, a plain value, and None
FilterChoices ==
    [tags |-> {PyList(<<PyInt(2), PyInt(10)>>), PyTuple(<<PyInt(1)>>), PyNone},
     types |-> {PyList(<<PyStr(<<"c">>), PyStr(<<"l">>)>>)},
     is_private |-> {PyBool(TRUE), PyBool(FALSE)},
     name |-> {PyStr(<<"a">>)},
     ids |-> {PyList(<<PyInt(1), PyInt(2)>>), PyList(<<>>)}]
Filters == DictsOver(FilterChoices, MaxKw)

FilterCalls ==
    [m : {"characters"}, page : 1..MaxPage, limit : {10, 30},
     related : BOOLEAN, filters : Filters, plan : {DefaultPlan}]

NextFilters == List(FilterCalls)

SpecFilters == InitManagers /\ [][NextFilters]_vars

\* the envelopes a listing may come in: meta and links under different keys,
\* neither, and one without data
Envelopes ==
    {[data |-> <<DocA>>, meta |-> [total |-> PyInt(1)],
      links |-> [next |-> PyStr(<<"2">>)]],
     [data |-> <<>>, meta |-> [current_page |-> PyInt(2)],
      links |-> [prev |-> PyStr(<<"1">>), next |-> PyNone]],
     [data |-> <<DocB>>],
     [meta |-> [total |-> PyInt(1)]]}

PagePlans ==
    {[DefaultPlan EXCEPT !.page = e] : e \in Envelopes}
    \cup {FailingPlan(1, 404), FailingPlan(1, 429)}

PageCalls ==
    [m : Managers, page : 1..MaxPage, limit : {30}, related : {FALSE},
     filters : {<<>>}, plan : PagePlans]

\* client.<m>.get(id)
GetOn ==
    \E m \in Managers, plan \in {DefaultPlan, FailingPlan(1, 404)} :
        LET W == get(World(plan), Manager(m), TheEntity.id, FALSE) IN
        /\ Commit([op |-> "get", m |-> m, id |-> TheEntity.id, plan |-> plan], W)
        /\ Keep(W)
        /\ UNCHANGED <<lastOk, before>>

\* client.<m>.list_posts(entity_id)
ListPosts ==
    \E m \in Managers, plan \in {DefaultPlan, FailingPlan(1, 404)} :
        LET W == list_posts(World(plan), Manager(m),
                            ById(TheEntity.entity_id), 1, 30) IN
        /\ Commit([op |-> "list_posts", m |-> m, plan |-> plan], W)
        /\ UNCHANGED <<held, lastOk, before>>

\* client.<m>.list_assets(entity_id)
ListAssets ==
    \E m \in Managers, plan \in {DefaultPlan, FailingPlan(1, 404)} :
        LET W == list_assets(World(plan), Manager(m),
                             ById(TheEntity.entity_id), 1, 30) IN
        /\ Commit([op |-> "list_assets", m |-> m, plan |-> plan], W)
        /\ UNCHANGED <<held, lastOk, before>>

NextPage == List(PageCalls) \/ GetOn \/ ListPosts \/ ListAssets

SpecPage == InitManagers /\ [][NextPage]_vars

----------------------------------------------------------------------------
(* C6: the query parameters of list().                                     *)

Digits == <<"0", "1", "2", "3", "4", "5", "6", "7", "8", "9">>

RECURSIVE DecimalValue(_)
\* the number a string of decimal digits writes, -1 when it is not one
DecimalValue(chars) ==
    IF chars = <<>> THEN -1
    ELSE LET last == chars[Len(chars)]
             d == IF \E i \in 1..10 : Digits[i] = last
                  THEN (CHOOSE i \in 1..10 : Digits[i] = last) - 1 ELSE -1
             rest == DecimalValue(SubSeq(chars, 1, Len(chars) - 1))
         IN  IF d < 0 THEN -1
             ELSE IF Len(chars) = 1 THEN d
             ELSE IF rest <= 0 THEN -1
             ELSE 10 * rest + d

RECURSIVE SplitCommas(_)
\* the pieces of a string between its commas, in order
SplitCommas(chars) ==
    IF \A i \in 1..Len(chars) : chars[i] # ","
    THEN <<chars>>
    ELSE LET i == CHOOSE j \in 1..Len(chars) :
                      chars[j] = "," /\ \A h \in 1..(j - 1) : chars[h] # ","
         IN  <<SubSeq(chars, 1, i - 1)>>
             \o SplitCommas(SubSeq(chars, i + 1, Len(chars)))

\* the string is the items joined by commas, in the order of the items
CommaJoined(chars, items) ==
    IF items = <<>> THEN chars = <<>>
    ELSE LET pieces == SplitCommas(chars) IN
         /\ Len(pieces) = Len(items)
         /\ \A i \in 1..Len(items) :
                IF items[i].t = "int"
                THEN DecimalValue(pieces[i]) = items[i].n
                ELSE pieces[i] = items[i].s

----------------------------------------------------------------------------
(* C8: the pagination attributes of a manager.                             *)

\* C8: after any sequence of operations, a manager's pagination_meta and
\* pagination_links (last_page_meta, last_page_links) are the meta and links
\* of the most recent list() on that manager whose request was answered
\* without an error: an empty dict for a key the envelope lacks and before
\* any such call; nothing of an earlier response survives, a list() that
\* fails leaves them, and list() on another manager never changes them.
C8_LastPagination ==
    \A m \in Managers :
        /\ pagination_meta(mgr[m]) = lastOk[m].meta
        /\ pagination_links(mgr[m]) = lastOk[m].links
        /\ ~lastOk[m].seen =>
               pagination_meta(mgr[m]) = <<>> /\ pagination_links(mgr[m]) = <<>>

\* a list() on characters failed after one that was answered, and locations
\* was listed with another envelope: characters still shows its own
C8_Witness ==
    /\ call.op = "list"
    /\ call.m = "characters"
    /\ Raised(outcome)
    /\ outcome.exc = "RateLimitError"
    /\ lastOk["characters"].seen
    /\ lastOk["locations"].seen
    /\ pagination_meta(mgr["characters"]) = [current_page |-> PyInt(2)]
    /\ pagination_meta(mgr["locations"]) = [total |-> PyInt(1)]
    /\ pagination_links(mgr["locations"]) = <<>>

----------------------------------------------------------------------------
(* The sub-resource operations, called with an entity object or with its   *)
(* entity_id.                                                              *)

\* the entity the calls are made on: its type-specific id differs from its
\* entity_id, and from every post and asset id used below
SubEntities == {ModelInit(CharacterDefaults, [DocA EXCEPT !.id = PyInt(3)], 1)}

SubPlans == {DefaultPlan}

\* the entity itself, or its bare entity_id
Target(e, byObject) ==
    IF byObject THEN ByObject(e) ELSE ById(e.fields.entity_id.n)

AnEntry == PyHtml(<<"x">>, <<<<"p">>>>)
OneImage == <<[key |-> <<"p">>, file |-> "f1"]>>

\* the call c made on manager m with the entity given as entity_or_id
SubCall(W, m, c, entity_or_id) ==
    CASE c.op = "list_posts" -> list_posts(W, m, entity_or_id, 1, 30)
      [] c.op = "create_post" ->
             create_post(W, m, entity_or_id, c.name, c.entry, c.images,
                         c.visibility_id, <<>>)
      [] c.op = "get_post" -> get_post(W, m, entity_or_id, c.post_id)
      [] c.op = "update_post" ->
             update_post(W, m, entity_or_id, c.post_id, c.images, PyNone,
                         c.kwargs)
      [] c.op = "delete_post" -> delete_post(W, m, entity_or_id, c.post_id)
      [] c.op = "list_assets" -> list_assets(W, m, entity_or_id, 1, 30)
      [] c.op = "get_asset" -> get_asset(W, m, entity_or_id, c.asset_id)
      [] c.op = "create_file_asset" ->
             create_file_asset(W, m, entity_or_id, c.file_path, PyNone, PyNone,
                               c.is_pinned)
      [] c.op = "create_link_asset" ->
             create_link_asset(W, m, entity_or_id, PyStr(<<"a">>),
                               PyStr(<<"l">>), c.icon, PyNone)
      [] c.op = "create_alias_asset" ->
             create_alias_asset(W, m, entity_or_id, c.name, PyNone)
      [] c.op = "delete_asset" -> delete_asset(W, m, entity_or_id, c.asset_id)
      [] c.op = "get_image" -> get_image(W, m, entity_or_id)
      [] c.op = "set_image" ->
             set_image(W, m, entity_or_id, c.file_path, c.is_header)
      [] c.op = "delete_image" -> delete_image(W, m, entity_or_id, c.is_header)

\* the assets a call may create
Creates(c) ==
    CASE c.op \in {"create_file_asset", "create_link_asset",
                   "create_alias_asset"} -> 1
      [] c.op \in {"create_post", "update_post"} -> Len(c.images)
      [] OTHER -> 0

\* client.characters.<op>(entity_or_id, ...): the call c on entity e
Sub(c, e, byObject) ==
    \E plan \in SubPlans :
        LET W == SubCall(World(plan), Characters, c, Target(e, byObject)) IN
        /\ Commit([op |-> c.op, args |-> c, entity |-> e,
                   byObject |-> byObject, plan |-> plan], W)
        /\ UNCHANGED <<held, lastOk, before>>

\* the remote still has ids for the assets the call may create
Room(c) == assetIds + Creates(c) <= MaxAssets

ListPostsOf ==
    \E e \in SubEntities, byObject \in BOOLEAN :
        LET c == [op |-> "list_posts"] IN
        Room(c) /\ Sub(c, e, byObject)

CreatePost ==
    \E e \in SubEntities, byObject \in BOOLEAN, images \in {<<>>, OneImage} :
        LET c == [op |-> "create_post", name |-> PyStr(<<"a">>),
                  entry |-> AnEntry, images |-> images,
                  visibility_id |-> PyNone] IN
        Room(c) /\ Sub(c, e, byObject)

GetPost ==
    \E e \in SubEntities, byObject \in BOOLEAN :
        LET c == [op |-> "get_post", post_id |-> 1] IN
        Room(c) /\ Sub(c, e, byObject)

UpdatePost ==
    \E e \in SubEntities, byObject \in BOOLEAN, images \in {<<>>, OneImage},
       kwargs \in {[name |-> PyStr(<<"a">>)],
                   [name |-> PyStr(<<"a">>), entry |-> AnEntry]} :
        LET c == [op |-> "update_post", post_id |-> 1, images |-> images,
                  kwargs |-> kwargs] IN
        Room(c) /\ Sub(c, e, byObject)

DeletePost ==
    \E e \in SubEntities, byObject \in BOOLEAN :
        LET c == [op |-> "delete_post", post_id |-> 1] IN
        Room(c) /\ Sub(c, e, byObject)

ListAssetsOf ==
    \E e \in SubEntities, byObject \in BOOLEAN :
        LET c == [op |-> "list_assets"] IN
        Room(c) /\ Sub(c, e, byObject)

GetAsset ==
    \E e \in SubEntities, byObject \in BOOLEAN :
        LET c == [op |-> "get_asset", asset_id |-> 1] IN
        Room(c) /\ Sub(c, e, byObject)

CreateFileAsset ==
    \E e \in SubEntities, byObject \in BOOLEAN :
        LET c == [op |-> "create_file_asset", file_path |-> "f1",
                  is_pinned |-> FALSE] IN
        Room(c) /\ Sub(c, e, byObject)

CreateLinkAsset ==
    \E e \in SubEntities, byObject \in BOOLEAN :
        LET c == [op |-> "create_link_asset", icon |-> PyStr(<<"i">>)] IN
        Room(c) /\ Sub(c, e, byObject)

CreateAliasAsset ==
    \E e \in SubEntities, byObject \in BOOLEAN :
        LET c == [op |-> "create_alias_asset", name |-> PyStr(<<"a">>)] IN
        Room(c) /\ Sub(c, e, byObject)

DeleteAsset ==
    \E e \in SubEntities, byObject \in BOOLEAN :
        LET c == [op |-> "delete_asset", asset_id |-> 1] IN
        Room(c) /\ Sub(c, e, byObject)

GetImage ==
    \E e \in SubEntities, byObject \in BOOLEAN :
        LET c == [op |-> "get_image"] IN
        Room(c) /\ Sub(c, e, byObject)

SetImage ==
    \E e \in SubEntities, byObject \in BOOLEAN, is_header \in BOOLEAN :
        LET c == [op |-> "set_image", file_path |-> "f1",
                  is_header |-> is_header] IN
        Room(c) /\ Sub(c, e, byObject)

DeleteImage ==
    \E e \in SubEntities, byObject \in BOOLEAN, is_header \in BOOLEAN :
        LET c == [op |-> "delete_image", is_header |-> is_header] IN
        Room(c) /\ Sub(c, e, byObject)

NextSub ==
    \/ ListPostsOf \/ CreatePost \/ GetPost \/ UpdatePost \/ DeletePost
    \/ ListAssetsOf \/ GetAsset \/ CreateFileAsset \/ CreateLinkAsset
    \/ CreateAliasAsset \/ DeleteAsset
    \/ GetImage \/ SetImage \/ DeleteImage

SpecSub == InitManagers /\ [][NextSub]_vars

----------------------------------------------------------------------------
(* C7: an entity object and its bare entity_id address the same            *)
(* sub-resource.                                                           *)

SubOps ==
    {"list_posts", "create_post", "get_post", "update_post", "delete_post",
     "list_assets", "get_asset", "create_file_asset", "create_link_asset",
     "create_alias_asset", "delete_asset", "get_image", "set_image",
     "delete_image"}

\* method and URL of each request, in order
MethodsAndUrls(requests) ==
    [i \in 1..Len(requests) |->
        [method |-> requests[i].method, url |-> requests[i].url]]

\* the step was a sub-resource call: the same call from the same state with
\* the entity given the other way sends the same methods to the same URLs,
\* and every URL is entities/{e.entity_id}/..., never built from e.id
SameAddress ==
    call'.op \in SubOps
    => LET e == call'.entity
           other == SubCall(World(call'.plan), Characters, call'.args,
                            Target(e, ~call'.byObject))
       IN  /\ e.fields.id # e.fields.entity_id
           /\ wire' # <<>>
           /\ MethodsAndUrls(wire') = MethodsAndUrls(other.wire)
           /\ \A i \in 1..Len(wire') :
                  /\ wire'[i].url.endpoint.root = "entities"
                  /\ wire'[i].url.endpoint.id = e.fields.entity_id.n
                  /\ wire'[i].url.endpoint.id # e.fields.id.n

\* C7: for every entity e with e.id different from e.entity_id and every
\* sub-resource operation (posts, assets, image), the call with e and the
\* call with the bare integer e.entity_id issue requests with the same method
\* and the same URL, and that URL is built from e.entity_id, never from e.id.
C7_SameAddress == [][SameAddress]_vars

\* update_post with images, given the entity object whose id is 3: the asset
\* listing, the upload and the PATCH all went to entities/2/...
C7_Witness ==
    /\ call.op = "update_post"
    /\ call.byObject
    /\ call.entity.fields.id = PyInt(3)
    /\ call.entity.fields.entity_id = PyInt(2)
    /\ Len(wire) = 3
    /\ \A i \in 1..3 : wire[i].url.endpoint.id = 2
    /\ wire[3].method = "PATCH"
    /\ wire[3].url.endpoint.sub = "posts"

----------------------------------------------------------------------------
(* update and update_post with an images mapping, against a remote that    *)
(* keeps the assets from one call to the next.                             *)

\* the placeholder labels a caller uses: a short one, and one a character
\* longer than max_name_len
Labels == {<<"p">>, Rep("L", max_name_len + 1)}

\* the images mappings: up to MaxImages placeholders, each with a file
ImageMaps ==
    UNION {{s \in [1..n -> [key : Labels, file : Files]] :
                \A i, j \in 1..n : i # j => s[i].key # s[j].key} :
           n \in 1..MaxImages}

\* an entry whose img tags name the placeholders of the mapping, in order
EntryFor(images) ==
    PyHtml(<<"x">>, [i \in 1..Len(images) |-> images[i].key])

\* the entity the caller holds: it has no entry
Holder == ModelInit(CharacterDefaults, DocA, 1)

ImagePlans == {DefaultPlan, FailingPlan(3, 500)}

\* client.characters.update(entity_or_id, images=images, **kwargs)
UpdateImages ==
    \E images \in ImageMaps, byObject \in BOOLEAN, withEntry \in BOOLEAN,
       plan \in ImagePlans :
        LET entity_or_id == IF byObject THEN ByObject(Holder)
                            ELSE ById(TheEntity.id)
            kwargs == IF withEntry THEN [entry |-> EntryFor(images)] ELSE <<>>
            W == update(World(plan), Characters, entity_or_id, images, kwargs)
        IN  /\ assetIds + Len(images) <= MaxAssets
            /\ Commit([op |-> "update", entity_or_id |-> entity_or_id,
                       images |-> images, kwargs |-> kwargs, plan |-> plan], W)
            /\ UNCHANGED <<held, lastOk>>
            /\ before' = assets

\* client.characters.update_post(entity_id, post_id, images=images, **kwargs)
UpdatePostImages ==
    \E images \in ImageMaps, withEntry \in BOOLEAN, plan \in ImagePlans :
        LET entity_or_id == ById(TheEntity.entity_id)
            kwargs == IF withEntry
                      THEN [name |-> PyStr(<<"a">>), entry |-> EntryFor(images)]
                      ELSE [name |-> PyStr(<<"a">>)]
            W == update_post(World(plan), Characters, entity_or_id, 1, images,
                             PyNone, kwargs)
        IN  /\ assetIds + Len(images) <= MaxAssets
            /\ Commit([op |-> "update_post", entity_or_id |-> entity_or_id,
                       images |-> images, kwargs |-> kwargs, plan |-> plan], W)
            /\ UNCHANGED <<held, lastOk>>
            /\ before' = assets

NextImages == UpdateImages \/ UpdatePostImages

SpecImages == InitManagers /\ [][NextImages]_vars

----------------------------------------------------------------------------
(* C9, C10: managed images across calls.                                   *)

\* the requests that upload an asset, and those that delete one
IsUpload(r) == r.method = "POST" /\ r.url.endpoint.sub = "entity_assets"
IsAssetDelete(r) == r.method = "DELETE" /\ r.url.endpoint.sub = "entity_assets"

\* the name under which the asset of a placeholder and a file is kept: the
\* label cut to 32 characters, a colon, the first 12 hex digits of the hash
DerivedName(placeholder, file) ==
    SubSeq(placeholder, 1, IF Len(placeholder) < 32 THEN Len(placeholder) ELSE 32)
    \o <<":">> \o FileHash[file]

\* the asset is kept for the placeholder, whatever the file
KeptFor(asset, placeholder) ==
    \E f \in Files : asset.name = DerivedName(placeholder, f)

\* the call was update or update_post with images and with an entry that
\* holds every placeholder of the mapping, and it returned
ImagesApplied(c, o) ==
    /\ c.op \in {"update", "update_post"}
    /\ c.images # <<>>
    /\ "entry" \in DOMAIN c.kwargs
    /\ \A i \in 1..Len(c.images) :
           \E j \in 1..Len(c.kwargs.entry.h) :
               c.kwargs.entry.h[j] = c.images[i].key
    /\ ~Raised(o)

\* a step that repeats the call before it, both returning: the second call
\* uploads nothing, deletes no asset, and its PATCH carries the URL of the
\* asset the remote already held for each placeholder
RepeatReuses ==
    (/\ call' = call
     /\ ImagesApplied(call, outcome)
     /\ ImagesApplied(call', outcome'))
    => /\ \A k \in 1..Len(wire') :
              ~IsUpload(wire'[k]) /\ ~IsAssetDelete(wire'[k])
       /\ \A i \in 1..Len(call.images) :
              /\ Cardinality({k \in 1..Len(wire) :
                     /\ IsUpload(wire[k])
                     /\ wire[k].kw.data.name.s =
                            DerivedName(call.images[i].key, call.images[i].file)})
                     <= 1
              /\ \E j \in 1..Len(assets) :
                     /\ assets[j].name =
                            DerivedName(call.images[i].key, call.images[i].file)
                     /\ wire'[Len(wire')].kw.json.entry.h[i] = assets[j].url

\* C9 as stated: for every placeholder label, of any length, and every file,
\* calling update twice in a row on the same entity with the same
\* {placeholder: file} mapping and an entry that contains the placeholder
\* uploads the asset at most once in total: the second call finds the
\* managed asset by its derived name and hash, issues no upload and no asset
\* DELETE, and reuses the asset's URL.
C9_AsStated == [][RepeatReuses]_vars

\* the remote held the asset of the long label and this file, and update
\* with the same mapping uploaded it again and deleted the one held
C9_Witness ==
    /\ ImagesApplied(call, outcome)
    /\ call.op = "update"
    /\ call.images = <<[key |-> Rep("L", max_name_len + 1), file |-> "f1"]>>
    /\ \E j \in 1..Len(before) :
           before[j].name = DerivedName(call.images[1].key, "f1")
    /\ \E k \in 1..Len(wire) : IsUpload(wire[k])
    /\ \E k \in 1..Len(wire) : IsAssetDelete(wire[k])

\* the assets held before the call for the i-th placeholder of the mapping
\* under another hash than that of the file now given
Stale(i) ==
    {j \in 1..Len(before) :
        /\ KeptFor(before[j], call.images[i].key)
        /\ before[j].name # DerivedName(call.images[i].key, call.images[i].file)}

\* C10 as stated: when update or update_post is called with an images mapping
\* in which a placeholder already has a managed asset whose recorded hash
\* differs from the hash of the file now given, the call issues exactly one
\* DELETE for the old asset's id and exactly one upload under the
\* placeholder's name with the new hash, the DELETE before the upload; when
\* the call completes, exactly one managed asset exists for the placeholder
\* and it carries the new hash.
C10_AsStated ==
    ImagesApplied(call, outcome)
    => \A i \in 1..Len(call.images) : \A j \in Stale(i) :
           LET new == DerivedName(call.images[i].key, call.images[i].file)
               deletes == {k \in 1..Len(wire) :
                              /\ IsAssetDelete(wire[k])
                              /\ wire[k].url.endpoint.sub_id = before[j].id}
               uploads == {k \in 1..Len(wire) :
                              /\ IsUpload(wire[k])
                              /\ wire[k].kw.data.name.s = new}
           IN  /\ Cardinality(deletes) = 1
               /\ Cardinality(uploads) = 1
               /\ \A d \in deletes, u \in uploads : d < u
               /\ Cardinality({a \in 1..Len(assets) :
                                  KeptFor(assets[a], call.images[i].key)}) = 1
               /\ \E a \in 1..Len(assets) : assets[a].name = new

\* the remote held the asset of the long label under the hash of another
\* file: update uploaded the new one first and deleted the old one after
C10_Witness ==
    /\ ImagesApplied(call, outcome)
    /\ call.images = <<[key |-> Rep("L", max_name_len + 1), file |-> "f2"]>>
    /\ Stale(1) # {}
    /\ \E u, d \in 1..Len(wire) :
           /\ IsUpload(wire[u])
           /\ IsAssetDelete(wire[d])
           /\ u < d

----------------------------------------------------------------------------
(* The four operations that take an images mapping, on one entity and its  *)
(* posts, against a remote that keeps the assets and the entries it is     *)
(* sent: create, update, create_post, update_post.                         *)

\* the number of posts the entity has over a run
MaxPosts == 2

\* the placeholder labels in use, both shorter than max_name_len
ShortLabels == <<(<<"p">>), (<<"q">>)>>

\* the images mappings, the empty one included: a sub-sequence of the
\* labels, each with a file
GalleryMaps ==
    {<<>>}
    \cup {<<[key |-> ShortLabels[i], file |-> f]>> : i \in 1..2, f \in Files}
    \cup {<<[key |-> ShortLabels[1], file |-> f],
            [key |-> ShortLabels[2], file |-> g]>> : f \in Files, g \in Files}

\* the remote stores and echoes what it is sent, and every request succeeds
EchoPlan == [DefaultPlan EXCEPT !.echo = TRUE]

\* the remote still has ids for the assets the call may create
GalleryRoom(images) == assetIds + Len(images) <= MaxAssets

\* client.characters.create(images=images, name=..., entry=...): the call
\* that brings the entity about, so the first call of a run if made at all
GalleryCreate ==
    \E images \in GalleryMaps :
        LET kwargs == [name |-> PyStr(<<"a">>), entry |-> EntryFor(images)]
            W == create(World(EchoPlan), Characters, images, kwargs)
        IN  /\ call = NoCall
            /\ GalleryRoom(images)
            /\ Commit([op |-> "create", images |-> images, kwargs |-> kwargs,
                       plan |-> EchoPlan], W)
            /\ before' = assets
            /\ UNCHANGED <<held, lastOk>>

\* client.characters.update(entity_or_id, images=images, **kwargs)
GalleryUpdate ==
    \E images \in GalleryMaps, byObject \in BOOLEAN, withEntry \in BOOLEAN :
        LET entity_or_id == IF byObject THEN ByObject(Holder)
                            ELSE ById(TheEntity.id)
            kwargs == IF withEntry THEN [entry |-> EntryFor(images)] ELSE <<>>
            W == update(World(EchoPlan), Characters, entity_or_id, images,
                        kwargs)
        IN  /\ GalleryRoom(images)
            /\ Commit([op |-> "update", entity_or_id |-> entity_or_id,
                       images |-> images, kwargs |-> kwargs,
                       plan |-> EchoPlan], W)
            /\ before' = assets
            /\ UNCHANGED <<held, lastOk>>

\* client.characters.create_post(entity_id, name, entry, images=images)
GalleryCreatePost ==
    \E images \in GalleryMaps :
        LET entity_or_id == ById(TheEntity.entity_id)
            kwargs == [entry |-> EntryFor(images)]
            W == create_post(World(EchoPlan), Characters, entity_or_id,
                             PyStr(<<"a">>), kwargs.entry, images, PyNone, <<>>)
        IN  /\ Len(stored.posts) < MaxPosts
            /\ GalleryRoom(images)
            /\ Commit([op |-> "create_post", entity_or_id |-> entity_or_id,
                       images |-> images, kwargs |-> kwargs,
                       plan |-> EchoPlan], W)
            /\ before' = assets
            /\ UNCHANGED <<held, lastOk>>

\* client.characters.update_post(entity_id, post_id, images=images, **kwargs)
GalleryUpdatePost ==
    \E images \in GalleryMaps, withEntry \in BOOLEAN,
       post_id \in 1..Len(stored.posts) :
        LET entity_or_id == ById(TheEntity.entity_id)
            kwargs == IF withEntry
                      THEN [name |-> PyStr(<<"a">>), entry |-> EntryFor(images)]
                      ELSE [name |-> PyStr(<<"a">>)]
            W == update_post(World(EchoPlan), Characters, entity_or_id,
                             post_id, images, PyNone, kwargs)
        IN  /\ GalleryRoom(images)
            /\ Commit([op |-> "update_post", entity_or_id |-> entity_or_id,
                       post_id |-> post_id, images |-> images,
                       kwargs |-> kwargs, plan |-> EchoPlan], W)
            /\ before' = assets
            /\ UNCHANGED <<held, lastOk>>

NextGallery ==
    GalleryCreate \/ GalleryUpdate \/ GalleryCreatePost \/ GalleryUpdatePost

SpecGallery == InitManagers /\ [][NextGallery]_vars

----------------------------------------------------------------------------
(* C11: update and the managed assets whose placeholder left the mapping.  *)

\* the asset is a managed one, and its placeholder label and hash
IsManaged(asset) == _parse_managed_asset_name(asset.name).ok
LabelOf(asset) == _parse_managed_asset_name(asset.name).name
HashOf(asset) == _parse_managed_asset_name(asset.name).hash

\* the DELETE requests of the last call for the asset
DeletesOf(asset) ==
    {k \in 1..Len(wire) :
        IsAssetDelete(wire[k]) /\ wire[k].url.endpoint.sub_id = asset.id}

\* the remote still holds the asset
StillHeld(asset) == \E a \in 1..Len(assets) : assets[a].id = asset.id

\* C11 as stated: for every update call on an entity that has managed image
\* assets and every images mapping passed to it, the empty mapping included,
\* when the call returns each managed asset whose placeholder label is not a
\* key of the mapping has been deleted by exactly one DELETE, and no managed
\* asset whose label is a key of the mapping with an unchanged hash is
\* deleted.
C11_AsStated ==
    (call.op = "update" /\ ~Raised(outcome))
    => \A j \in 1..Len(before) :
           IsManaged(before[j])
           => /\ (\A i \in 1..Len(call.images) :
                      call.images[i].key # LabelOf(before[j]))
                 => /\ Cardinality(DeletesOf(before[j])) = 1
                    /\ ~StillHeld(before[j])
              /\ (\E i \in 1..Len(call.images) :
                      /\ call.images[i].key = LabelOf(before[j])
                      /\ FileHash[call.images[i].file] = HashOf(before[j]))
                 => /\ DeletesOf(before[j]) = {}
                    /\ StillHeld(before[j])

\* the entity had the managed asset of a placeholder, update was called with
\* a new entry and the empty mapping, and returned having sent its PATCH and
\* no DELETE: the asset is still there
C11_Witness ==
    /\ call.op = "update"
    /\ ~Raised(outcome)
    /\ call.images = <<>>
    /\ "entry" \in DOMAIN call.kwargs
    /\ \E j \in 1..Len(before) :
           /\ IsManaged(before[j])
           /\ DeletesOf(before[j]) = {}
           /\ StillHeld(before[j])
    /\ \E k \in 1..Len(wire) : wire[k].method = "PATCH"

----------------------------------------------------------------------------
(* The transport with the rate-limit retry a caller may opt into           *)
(* (KankaClient(..., enable_rate_limit_retry=True)).                       *)

\* a 429 answer may carry a retry-after hint
Hints == BOOLEAN
\* the answers to a request of a client that has opted in
RetryResponses ==
    [status_code : {200, 429, 500},
     body : {EmptyBody, [kind |-> "json", doc |-> 0]}]

\* the requests one transport call sends when the caller has opted in: the
\* request, and the same request once more after a 429 with a hint
RetriedWire(req, resp, hint) ==
    IF resp.status_code = 429 /\ hint THEN <<req, req>> ELSE <<req>>

\* _request(method, endpoint) on a client that has opted in: the answer
\* resp to the request and, when it is sent again, the answer second
RequestRetrying ==
    \E method \in {"GET", "DELETE"}, resp \in RetryResponses, hint \in Hints :
    \E second \in IF resp.status_code = 429 /\ hint THEN RetryResponses
                  ELSE {resp} :
        LET endpoint == Endpoint("characters", 1, "", 0)
            req == HttpRequest(client, method, endpoint, <<>>)
            sent == RetriedWire(req, resp, hint)
            last == IF Len(sent) > 1 THEN second ELSE resp
        IN  /\ call' = [op |-> "_request_retrying", method |-> method,
                        endpoint |-> endpoint, resp |-> resp, hint |-> hint,
                        last |-> last]
            /\ wire' = sent
            /\ outcome' = HandleResponse(method, endpoint, last)
            /\ UNCHANGED <<client, before, held, mgr, lastOk, assets, assetIds,
                           stored>>

NextRetry == _request \/ RequestRetrying

SpecRetry == InitManagers /\ [][NextRetry]_vars

----------------------------------------------------------------------------
(* C12: the number of HTTP requests of one transport call.                 *)

----------------------------------------------------------------------------
(* DELETE: the transport called with DELETE, and the four operations that  *)
(* delete, each answered with success or with an error status.             *)

\* the answers to the one request of a deleting operation
DeletePlans ==
    {DefaultPlan} \cup {FailingPlan(1, s) : s \in {401, 403, 404, 422, 429, 500}}

\* KankaClient._request("DELETE", endpoint): any status, any body
DeleteRequest ==
    \E endpoint \in Endpoints, resp \in Responses :
        /\ call' = [op |-> "_request", method |-> "DELETE",
                    endpoint |-> endpoint, resp |-> resp]
        /\ wire' = <<HttpRequest(client, "DELETE", endpoint, <<>>)>>
        /\ outcome' = HandleResponse("DELETE", endpoint, resp)
        /\ UNCHANGED <<client, before, held, mgr, lastOk, assets, assetIds,
                       stored>>

\* a deleting operation ends
Deleted(op, plan, byObject, W) ==
    /\ Commit([op |-> op, plan |-> plan, byObject |-> byObject], W)
    /\ UNCHANGED <<held, lastOk>>

\* client.characters.delete(entity_or_id)
DeleteEntity ==
    \E plan \in DeletePlans, byObject \in BOOLEAN :
        LET entity_or_id == IF byObject THEN ByObject(Holder)
                            ELSE ById(TheEntity.id)
        IN  /\ before' = assets
            /\ Deleted("delete", plan, byObject,
                       delete(World(plan), Characters, entity_or_id))

\* client.characters.delete_post(entity_or_id, post_id)
DeletePostOf ==
    \E plan \in DeletePlans, byObject \in BOOLEAN :
        /\ before' = assets
        /\ Deleted("delete_post", plan, byObject,
                   delete_post(World(plan), Characters,
                               Target(Holder, byObject), 1))

\* client.characters.delete_asset(entity_or_id, asset_id)
DeleteAssetOf ==
    \E plan \in DeletePlans, byObject \in BOOLEAN :
        /\ before' = assets
        /\ Deleted("delete_asset", plan, byObject,
                   delete_asset(World(plan), Characters,
                                Target(Holder, byObject), 1))

\* client.characters.delete_image(entity_or_id, is_header)
DeleteImageOf ==
    \E plan \in DeletePlans, byObject \in BOOLEAN, is_header \in BOOLEAN :
        /\ before' = assets
        /\ Deleted("delete_image", plan, byObject,
                   delete_image(World(plan), Characters,
                                Target(Holder, byObject), is_header))

NextDelete ==
    \/ DeleteRequest \/ DeleteEntity \/ DeletePostOf \/ DeleteAssetOf
    \/ DeleteImageOf \/ CreateLinkAsset

SpecDelete == InitManagers /\ [][NextDelete]_vars

----------------------------------------------------------------------------
(* C13: DELETE handling.                                                   *)

DeleteOps == {"delete", "delete_post", "delete_asset", "delete_image"}

\* the error class a status of 400 or more is mapped to
MappedError(s) ==
    CASE s = 401 -> "AuthenticationError"
      [] s = 403 -> "ForbiddenError"
      [] s = 404 -> "NotFoundError"
      [] s = 422 -> "ValidationError"
      [] s = 429 -> "RateLimitError"
      [] OTHER -> "KankaException"

\* the status the remote answered the one request of the deleting call with
AnsweredStatus ==
    IF call.plan.failAt = 1 THEN call.plan.failStatus
    ELSE IF call.op = "delete_asset"
            /\ \A j \in 1..Len(before) : before[j].id # 1
    THEN 404
    ELSE 204

\* the deleting operations send one DELETE; they return True when it raised
\* nothing, let its error escape otherwise, and never return False
DeletesReturnTrue ==
    call.op \in DeleteOps
    => /\ Len(wire) = 1
       /\ wire[1].method = "DELETE"
       /\ Raised(outcome) <=> AnsweredStatus >= 400
       /\ Raised(outcome) => outcome.exc = MappedError(AnsweredStatus)
       /\ ~Raised(outcome) => outcome.value = TRUE

\* C13 as stated: for a DELETE request _request returns an empty dict
\* without reading the body whenever the status is not an error, and a
\* DELETE answered with a status >= 400 raises the mapped error instead of
\* returning; delete, delete_post, delete_asset and delete_image return True
\* exactly when the request raised nothing and never return False.
C13_AsStated ==
    /\ (call.op = "_request" /\ call.method = "DELETE")
       => IF call.resp.status_code < 400
          THEN outcome = Return(EmptyDict)
          ELSE RaisedAs(MappedError(call.resp.status_code))
    /\ DeletesReturnTrue

\* C13, amended: as stated, except that a DELETE answered with 422 and a
\* non-empty body that is not JSON raises the JSON decoder's error in place
\* of ValidationError.
C13_DeleteHandling ==
    /\ (call.op = "_request" /\ call.method = "DELETE")
       => IF call.resp.status_code < 400
          THEN outcome = Return(EmptyDict)
          ELSE IF /\ call.resp.status_code = 422
                  /\ HasText(call.resp.body) /\ ~JsonOk(call.resp.body)
          THEN RaisedAs("JSONDecodeError")
          ELSE RaisedAs(MappedError(call.resp.status_code))
    /\ DeletesReturnTrue

\* delete_asset of an asset the remote holds, answered 204 with an empty
\* body: True, and the asset is gone
C13_Witness ==
    /\ call.op = "delete_asset"
    /\ call.plan = DefaultPlan
    /\ Len(before) = 1
    /\ assets = <<>>
    /\ ~Raised(outcome)
    /\ outcome.value = TRUE

----------------------------------------------------------------------------
(* create_post and update_post called with the privacy flag of the post.   *)

PostPlans == {DefaultPlan} \cup {FailingPlan(1, s) : s \in {404, 422, 500}}
Visibilities == {PyNone, PyInt(1), PyInt(2)}
PostNames == {PyStr(<<"a">>), PyStr(<<"b">>)}

\* client.characters.create_post(entity_or_id, name, entry, is_private=...)
CreatePostPrivate ==
    \E plan \in PostPlans, byObject \in BOOLEAN, is_private \in BOOLEAN,
       name \in PostNames, visibility_id \in Visibilities :
        LET args == [is_private |-> is_private, name |-> name,
                     visibility_id |-> visibility_id, byObject |-> byObject]
            W == create_post(World(plan), Characters, Target(Holder, byObject),
                             name, PyStr(<<"x">>), <<>>, visibility_id,
                             [is_private |-> PyBool(is_private)])
        IN  /\ Commit([op |-> "create_post", args |-> args, plan |-> plan], W)
            /\ UNCHANGED <<held, lastOk, before>>

\* client.characters.update_post(entity_or_id, post_id, name=..., is_private=...)
UpdatePostPrivate ==
    \E plan \in PostPlans, byObject \in BOOLEAN, is_private \in BOOLEAN,
       name \in PostNames, visibility_id \in Visibilities :
        LET args == [is_private |-> is_private, name |-> name,
                     visibility_id |-> visibility_id, byObject |-> byObject]
            W == update_post(World(plan), Characters, Target(Holder, byObject),
                             1, <<>>, visibility_id,
                             [name |-> name, is_private |-> PyBool(is_private)])
        IN  /\ Commit([op |-> "update_post", args |-> args, plan |-> plan], W)
            /\ UNCHANGED <<held, lastOk, before>>

NextPrivacy == CreatePostPrivate \/ UpdatePostPrivate

SpecPrivacy == InitManagers /\ [][NextPrivacy]_vars

----------------------------------------------------------------------------
(* C14: the privacy flag of a post on the wire.                            *)

\* C14 as stated: create_post and update_post send the post's privacy flag
\* as an integer, not as a boolean: for every boolean is_private passed by
\* the caller, the JSON body of the POST / PATCH to
\* entities/{entity_id}/posts[/{post_id}] carries is_private = 1 for True
\* and 0 for False.
C14_AsStated ==
    call.op \in {"create_post", "update_post"}
    => /\ Len(wire) = 1
       /\ wire[1].method = (IF call.op = "create_post" THEN "POST" ELSE "PATCH")
       /\ wire[1].url.endpoint =
              Endpoint("entities", TheEntity.entity_id, "posts",
                       IF call.op = "create_post" THEN 0 ELSE 1)
       /\ wire[1].kw.json.is_private =
              PyInt(IF call.args.is_private THEN 1 ELSE 0)

\* create_post given is_private=True sent the flag as the boolean it got
C14_Witness ==
    /\ call.op = "create_post"
    /\ call.args.is_private
    /\ Len(wire) = 1
    /\ wire[1].method = "POST"
    /\ wire[1].kw.json.is_private = PyBool(TRUE)
    /\ ~Raised(outcome)

----------------------------------------------------------------------------
(* get() after other calls on the same id: no client-side cache.           *)

FetchIds == {1, 2}

FetchCalls == {c \in PageCalls : c.m = "characters" /\ c.page = 1}

\* client.characters.get(id), whatever was called before
Fetch ==
    \E plan \in CrudPlans, id \in FetchIds, related \in BOOLEAN :
        LET W == get(World(plan), Characters, id, related) IN
        /\ Commit([op |-> "fetch", id |-> id, related |-> related,
                   plan |-> plan], W)
        /\ Keep(W)
        /\ UNCHANGED <<lastOk, before>>

FetchList == List(FetchCalls)

NextFetch == Fetch \/ Create \/ UpdateObject \/ UpdateById \/ FetchList

SpecFetch == InitManagers /\ [][NextFetch]_vars

\* C15: whatever get, list, create or update preceded it, a get(id) call
\* sends exactly one GET, to {endpoint}/{id}, and, when the request raised
\* nothing, returns an instance that is not the one the caller held and whose
\* fields are the model defaults overlaid with that response's data only
C15_NoCache ==
    [][call'.op = "fetch" =>
         /\ Len(wire') = 1
         /\ wire'[1].method = "GET"
         /\ wire'[1].url = FullUrl(client, Endpoint("characters", call'.id, "", 0))
         /\ Raised(outcome') <=> call'.plan.failAt = 1
         /\ ~Raised(outcome') =>
              /\ outcome'.value.oid # held.oid
              /\ outcome'.value.fields =
                     DictUpdate(CharacterDefaults, call'.plan.data)
              /\ outcome'.value.set = DOMAIN call'.plan.data]_vars

\* a get(1) made after a list() and while the caller holds entity 1 with
\* another name: one GET went out and the returned name is the response's
C15_Witness ==
    /\ call.op = "fetch"
    /\ call.id = 1
    /\ mgr["characters"] # <<>>
    /\ Len(wire) = 1
    /\ ~Raised(outcome)
    /\ call.plan.data = DocB
    /\ outcome.value.fields.name = DocB.name
    /\ DocB.name # DocA.name

----------------------------------------------------------------------------
(* create() then get() against a remote that stores and echoes the body.   *)

\* the echoing remote assigns the server-side fields of DocA or of DocB
EchoPlans == {[EchoPlan EXCEPT !.data = d] : d \in {DocA, DocB}}

\* client.<type>.create(**kwargs)
EchoCreate ==
    \E plan \in EchoPlans \cup {FailingPlan(1, 422)}, name \in Managers,
       kwargs \in Kwargs :
        LET W == create(World(plan), Manager(name), <<>>, kwargs) IN
        /\ Commit([op |-> "create", m |-> name, images |-> <<>>,
                   kwargs |-> kwargs, plan |-> plan], W)
        /\ Keep(W)
        /\ UNCHANGED <<lastOk, before>>

\* client.<type>.get(created.id), right after the create that returned it
EchoGet ==
    /\ call.op = "create"
    /\ ~Raised(outcome)
    /\ LET plan == call.plan
           W == get(World(plan), Manager(call.m), outcome.value.fields.id.n,
                    FALSE)
       IN  /\ Commit([op |-> "get_created", m |-> call.m,
                      id |-> outcome.value.fields.id.n,
                      kwargs |-> call.kwargs, plan |-> plan], W)
           /\ Keep(W)
           /\ UNCHANGED <<lastOk, before>>

NextEcho == EchoCreate \/ EchoGet

SpecEcho == InitManagers /\ [][NextEcho]_vars

EchoedBack(keys) ==
    (call.op = "get_created" /\ ~Raised(outcome)) =>
        \A k \in keys :
            /\ k \in DOMAIN outcome.value.fields
            /\ PyEq(outcome.value.fields[k], call.kwargs[k])

\* C16 as stated: the entity get() returns after create(**fields) carries
\* every field passed to create with the value that was passed
C16_AsStated == EchoedBack(DOMAIN call.kwargs)

\* C16: the entity get() returns after create(**fields) carries every passed
\* field that is not server-assigned (id, entity_id, created_at, created_by,
\* updated_at, updated_by) with the value that was passed
C16_EchoedBack == EchoedBack(DOMAIN call.kwargs \ ServerAssigned)

\* a get after a create that passed a field the model does not declare and
\* a server-assigned one: the first comes back as passed
C16_Witness ==
    /\ call.op = "get_created"
    /\ ~Raised(outcome)
    /\ {"custom", "created_at"} \subseteq DOMAIN call.kwargs
    /\ outcome.value.fields.custom = call.kwargs.custom
    /\ Len(wire) = 1

----------------------------------------------------------------------------
(* KankaClient.entities: the /entities endpoint with filters.              *)

\* the keys entities() copies when they are present and not None
EntityFilterKeys == {"name", "is_private", "created_by", "updated_by"}

\* params of entities(): types and tags joined when lists and copied as
\* they are otherwise; the four keys above, booleans as int; nothing else
EntitiesParams(filters) ==
    LET joined == {k \in {"types", "tags"} \cap DOMAIN filters : TRUE}
        copied == {k \in EntityFilterKeys \cap DOMAIN filters :
                      filters[k].t # "none"}
    IN  [k \in joined \cup copied |->
            IF k = "types" /\ filters[k].t = "list"
            THEN PyStr(Join([i \in 1..Len(filters[k].l) |-> filters[k].l[i].s],
                            <<",">>))
            ELSE IF k = "tags" /\ filters[k].t = "list"
            THEN PyStr(Join([i \in 1..Len(filters[k].l) |->
                                PyStrOf(filters[k].l[i])], <<",">>))
            ELSE IF k \in EntityFilterKeys /\ filters[k].t = "bool"
            THEN PyInt(filters[k].n)
            ELSE filters[k]]

\* an entities() that lets every supplied key through
EntitiesParamsOpen(filters) ==
    [k \in {j \in DOMAIN filters : filters[j].t # "none"} |->
        FilterParam(k, filters[k])]

\* KankaClient.entities
entities(W, filters) ==
    Then(Send(W, "GET", Endpoint("entities", 0, "", 0),
              [params |-> EntitiesParams(filters)]),
         LAMBDA W1 :
             IF "data" \notin DOMAIN Value(W1).doc
             THEN [W1 EXCEPT !.last = Raise("KeyError", NoMsg)]
             ELSE Returning(W1, Value(W1).doc.data))

----------------------------------------------------------------------------
(* Where every request goes and what authorises it.                        *)

AddressPlans == {DefaultPlan, FailingPlan(1, 401), FailingPlan(1, 404)}

InitAddress ==
    /\ \E t \in Tokens, c \in Campaigns : client = NewClient(t, c)
    /\ InitRest
    /\ stored = InitialStore

\* the operations of client.characters and of the client, on entity 1 /
\* entity_id 2
AddressOps ==
    {"get", "list", "create", "update", "delete", "list_posts", "create_post",
     "update_post", "delete_post", "list_assets", "create_file_asset",
     "delete_asset", "get_image", "set_image", "delete_image", "entities"}

\* own: the entity or its id; e: the entity or its entity_id
Operated(op, W, m, own, e) ==
    CASE op = "get" -> get(W, m, TheEntity.id, FALSE)
      [] op = "list" -> list(W, m, 1, 30, FALSE, <<>>)
      [] op = "create" -> create(W, m, <<>>, [name |-> PyStr(<<"a">>)])
      [] op = "update" -> update(W, m, own, <<>>, [name |-> PyStr(<<"b">>)])
      [] op = "delete" -> delete(W, m, own)
      [] op = "list_posts" -> list_posts(W, m, e, 1, 30)
      [] op = "create_post" ->
             create_post(W, m, e, PyStr(<<"a">>), PyStr(<<"x">>), <<>>,
                         PyNone, <<>>)
      [] op = "update_post" ->
             update_post(W, m, e, 1, <<>>, PyNone, [name |-> PyStr(<<"b">>)])
      [] op = "delete_post" -> delete_post(W, m, e, 1)
      [] op = "list_assets" -> list_assets(W, m, e, 1, 30)
      [] op = "create_file_asset" ->
             create_file_asset(W, m, e, "f1", PyNone, PyNone, FALSE)
      [] op = "delete_asset" -> delete_asset(W, m, e, 1)
      [] op = "get_image" -> get_image(W, m, e)
      [] op = "set_image" -> set_image(W, m, e, "f1", FALSE)
      [] op = "delete_image" -> delete_image(W, m, e, FALSE)
      [] OTHER -> entities(W, [types |-> PyList(<<PyStr(<<"c">>)>>)])

Operate ==
    \E op \in AddressOps, plan \in AddressPlans, byObject \in BOOLEAN :
        LET W == Operated(op, World(plan), Characters,
                          IF byObject THEN ByObject(Holder)
                          ELSE ById(TheEntity.id),
                          Target(Holder, byObject))
        IN  /\ op = "create_file_asset" => assetIds < MaxAssets
            /\ Commit([op |-> op, byObject |-> byObject,
                       plan |-> plan], W)
            /\ before' = assets
            /\ UNCHANGED <<held, lastOk>>

NextAddress == Operate

SpecAddress == InitAddress /\ [][NextAddress]_vars

----------------------------------------------------------------------------
(* KankaClient.entities with the filters a caller passes.                  *)

\* the filters a caller passes: the six keys entities() names and one it
\* does not
EntityFilterChoices ==
    [types |-> {PyList(<<PyStr(<<"c">>)>>),
                PyList(<<PyStr(<<"c">>), PyStr(<<"l">>)>>),
                PyStr(<<"c">>), PyNone},
     tags |-> {PyList(<<PyInt(1), PyInt(2)>>), PyStr(<<"1">>)},
     name |-> {PyStr(<<"a">>), PyNone},
     is_private |-> {PyBool(TRUE), PyBool(FALSE), PyInt(1)},
     created_by |-> {PyInt(5)},
     is_template |-> {PyBool(TRUE), PyInt(1)}]
EntityFilters == DictsOver(EntityFilterChoices, MaxKw)

\* client.entities(types=..., name=..., ...)
Entities ==
    \E plan \in PagePlans, filters \in EntityFilters :
        LET W == entities(World(plan), filters) IN
        /\ Commit([op |-> "entities", filters |-> filters, plan |-> plan], W)
        /\ UNCHANGED <<held, lastOk, before>>

NextEntities == Entities

SpecEntities == InitManagers /\ [][NextEntities]_vars

\* C18 as stated: entities() sends exactly one GET to
\* campaigns/{id}/entities whose query carries every filter key supplied
\* with a non-None value: types and tags lists comma-joined, booleans as
\* 0/1, every other value as passed
C18_AsStated ==
    call.op = "entities" =>
        /\ Len(wire) = 1
        /\ wire[1].method = "GET"
        /\ wire[1].url = FullUrl(client, Endpoint("entities", 0, "", 0))
        /\ \A k \in DOMAIN call.filters :
               call.filters[k].t # "none" =>
                   /\ k \in DOMAIN wire[1].kw.params
                   /\ wire[1].kw.params[k] =
                          EntitiesParamsOpen(call.filters)[k]

\* entities(is_private=True, is_template=True): one GET went out, with
\* is_private=1 in the query and no is_template
C18_Witness ==
    /\ call.op = "entities"
    /\ DOMAIN call.filters = {"is_private", "is_template"}
    /\ call.filters.is_private = PyBool(TRUE)
    /\ Len(wire) = 1
    /\ wire[1].kw.params = [is_private |-> PyInt(1)]

----------------------------------------------------------------------------
(* Assets referenced from the entries of one entity and of its posts.      *)

\* the URLs the remote gave to file assets so far
AssetUrls == {CdnUrl(id) : id \in 1..assetIds}

\* the asset URLs an entry document carries in its image sources
UrlsIn(doc) ==
    IF "entry" \in DOMAIN doc /\ doc.entry.t = "str"
    THEN {doc.entry.h[i] : i \in 1..Len(doc.entry.h)} \cap AssetUrls
    ELSE {}

\* the post the last call wrote, 0 when it wrote the entity's own entry
TargetPost ==
    IF call.op = "update_post" THEN call.post_id
    ELSE IF call.op = "create_post" THEN Len(stored.posts)
    ELSE 0

\* the asset URLs in the entries the last call did not reconcile
OtherUrls ==
    UNION ({UrlsIn(stored.posts[k]) :
               k \in (1..Len(stored.posts)) \ {TargetPost}}
           \cup (IF TargetPost # 0 THEN {UrlsIn(stored.doc)} ELSE {}))

Backed(held_assets, url) ==
    \E a \in 1..Len(held_assets) : held_assets[a].url = url

\* C19 (the part about other entries): after a create, update, create_post
\* or update_post with images, an asset URL carried by an entry the call did
\* not reconcile, and backed by an asset before the call, is still backed by
\* an asset of the entity
C19_AsStated ==
    call.op \in {"create", "update", "create_post", "update_post"} =>
        \A u \in OtherUrls : Backed(before, u) => Backed(assets, u)

\* an update_post with images ran while the entity's own entry carried the
\* URL of an existing managed asset
C19_Witness ==
    /\ call.op = "update_post"
    /\ call.images # <<>>
    /\ \E u \in UrlsIn(stored.doc) : Backed(before, u)

----------------------------------------------------------------------------
(* One managed asset per derived name.                                     *)

\* C20 as stated: starting from an entity with no assets, after any sequence
\* of create, update, create_post and update_post calls with images, no two
\* managed assets of the entity have the same derived name
C20_AsStated ==
    \A a, b \in 1..Len(assets) :
        (a # b /\ IsManaged(assets[a]) /\ IsManaged(assets[b]))
            => assets[a].name # assets[b].name

\* a create_post whose mapping holds a label and file that an asset of the
\* entity already carried in its name before the call
C20_Witness ==
    /\ call.op = "create_post"
    /\ \E i \in 1..Len(call.images), a \in 1..Len(before) :
           before[a].name = DerivedName(call.images[i].key,
                                        call.images[i].file)

----------------------------------------------------------------------------
(* update(e, images=m) on the instance the previous call returned.         *)

\* client.characters.create(name=..., entry=..., images=images); the caller
\* keeps the returned instance
KeptCreate ==
    \E images \in GalleryMaps :
        LET kwargs == [name |-> PyStr(<<"a">>), entry |-> EntryFor(images)]
            W == create(World(EchoPlan), Characters, images, kwargs)
        IN  /\ GalleryRoom(images)
            /\ Commit([op |-> "create", images |-> images, kwargs |-> kwargs,
                       plan |-> EchoPlan], W)
            /\ Keep(W)
            /\ before' = assets
            /\ UNCHANGED lastOk

\* the keyword fields of an update of the kept instance: none, a field with
\* the value the instance has, and a field with another value
KeptKwargs ==
    {<<>>, [name |-> PyStr(<<"a">>)], [name |-> PyStr(<<"b">>)]}

\* client.characters.update(e, images=images, **kwargs) for the kept e
KeptUpdate ==
    \E images \in GalleryMaps, kwargs \in KeptKwargs :
        LET W == update(World(EchoPlan), Characters, ByObject(held), images,
                        kwargs)
        IN  /\ held # NoEntity
            /\ GalleryRoom(images)
            /\ Commit([op |-> "update", e |-> held, images |-> images,
                       kwargs |-> kwargs, plan |-> EchoPlan], W)
            /\ Keep(W)
            /\ before' = assets
            /\ UNCHANGED lastOk

NextKept == KeptCreate \/ KeptUpdate

SpecKept == InitManagers /\ [][NextKept]_vars

\* no keyword field of the call differs from the instance
NothingDiffers ==
    \A k \in DOMAIN call.kwargs :
        k \in DOMAIN call.e.fields /\ PyEq(call.e.fields[k], call.kwargs[k])

\* every file of the mapping had, before the call, a managed asset with the
\* same label and hash whose URL the entry of the instance carries
AllInPlace ==
    /\ call.e.fields.entry.t = "str"
    /\ \A i \in 1..Len(call.images) :
           \E a \in 1..Len(before) :
               /\ before[a].name = DerivedName(call.images[i].key,
                                               call.images[i].file)
               /\ \E j \in 1..Len(call.e.fields.entry.h) :
                      call.e.fields.entry.h[j] = before[a].url

\* C21 as stated: update(e, images=m) in which no field differs from e and
\* every file of m already has a managed asset with the same hash, the entry
\* of e holding the asset URLs, sends no PATCH and returns e itself
C21_AsStated ==
    (/\ call.op = "update"
     /\ "e" \in DOMAIN call
     /\ call.images # <<>>
     /\ NothingDiffers
     /\ AllInPlace)
        => /\ \A k \in 1..Len(wire) : wire[k].method # "PATCH"
           /\ ~Raised(outcome)
           /\ outcome.value = call.e

\* such an update ran: nothing to change, the one file of the mapping in
\* place, and no upload or delete was needed
C21_Witness ==
    /\ call.op = "update"
    /\ "e" \in DOMAIN call
    /\ Len(call.images) = 1
    /\ NothingDiffers
    /\ AllInPlace
    /\ assets = before
    /\ \A k \in 1..Len(wire) : ~IsUpload(wire[k]) /\ ~IsAssetDelete(wire[k])

----------------------------------------------------------------------------
(* The order of the requests of create(images=...).                        *)

\* the entry of the entity the POST returns: none, the empty string, one
\* without images, and ones with one or two placeholders
PostedEntries ==
    {PyNone, PyHtml(<<>>, <<>>), PyHtml(<<"x">>, <<>>),
     PyHtml(<<"x">>, <<ShortLabels[1]>>),
     PyHtml(<<"x">>, <<ShortLabels[1], ShortLabels[2]>>)}

\* the remote answers the POST with an entity carrying the entry, gives or
\* withholds the URL of an uploaded file, and fails at no request or at the
\* first, second or third
OrderPlans ==
    {[DefaultPlan EXCEPT !.data = DictSet(DocA, "entry", e), !.url = u,
                         !.failAt = f, !.failStatus = 422] :
        e \in PostedEntries, u \in BOOLEAN, f \in 0..3}

\* the images mappings of the calls: none, one file, two files
OrderMaps ==
    {m \in GalleryMaps :
        \A i \in 1..Len(m) : m[i].file = (IF i = 1 THEN "f1" ELSE "f2")}

\* client.characters.create(name=..., entry=..., images=images)
OrderedCreate ==
    \E images \in OrderMaps, plan \in OrderPlans :
        LET kwargs == [name |-> PyStr(<<"a">>), entry |-> EntryFor(images)]
            W == create(World(plan), Characters, images, kwargs)
        IN  /\ GalleryRoom(images)
            /\ Commit([op |-> "create", images |-> images, kwargs |-> kwargs,
                       plan |-> plan], W)
            /\ before' = assets
            /\ UNCHANGED <<held, lastOk>>

NextOrder == OrderedCreate

SpecOrder == InitManagers /\ [][NextOrder]_vars

\* the entry of the entity the POST of the last create returned
PostedEntry == call.plan.data.entry

\* the uploads the claim expects: one per key when the entity has an entry
ExpectedUploads ==
    IF call.images = <<>> \/ PostedEntry.t = "none" \/ PostedEntry.s = <<>>
    THEN <<>>
    ELSE [i \in 1..Len(call.images) |->
             [method |-> "POST",
              endpoint |-> Endpoint("entities", TheEntity.entity_id,
                                    "entity_assets", 0),
              file |-> call.images[i].file]]

\* the entry the claim expects in the PATCH: each source that is a key of
\* the mapping replaced by the URL of the asset uploaded for that key
ExpectedEntry ==
    [PostedEntry EXCEPT !.h =
        [j \in 1..Len(PostedEntry.h) |->
            IF call.plan.url
               /\ \E i \in 1..Len(call.images) :
                      call.images[i].key = PostedEntry.h[j]
            THEN CdnUrl(Len(before)
                        + CHOOSE i \in 1..Len(call.images) :
                              call.images[i].key = PostedEntry.h[j])
            ELSE PostedEntry.h[j]]]

ExpectedPatch ==
    IF ExpectedUploads # <<>> /\ ExpectedEntry # PostedEntry
    THEN <<[method |-> "PATCH", endpoint |-> Endpoint("characters", 1, "", 0),
            json |-> [entry |-> ExpectedEntry]]>>
    ELSE <<>>

ExpectedOrder ==
    <<[method |-> "POST", endpoint |-> Endpoint("characters", 0, "", 0)]>>
    \o ExpectedUploads \o ExpectedPatch

\* what one sent request has in common with an expected one
SentAs(req, exp) ==
    /\ req.method = exp.method
    /\ req.url.endpoint = exp.endpoint
    /\ "file" \in DOMAIN exp =>
           "files" \in DOMAIN req.kw /\ req.kw.files.file = exp.file
    /\ "json" \in DOMAIN exp =>
           "json" \in DOMAIN req.kw /\ req.kw.json = exp.json

\* the number of requests a create sends before it returns or raises
SentCount ==
    IF call.plan.failAt \in 1..Len(ExpectedOrder) THEN call.plan.failAt
    ELSE Len(ExpectedOrder)

\* C22: create(images=m, ...) sends the POST of the entity, then one upload
\* per key of m to entities/{entity_id}/entity_assets, then one PATCH of
\* {endpoint}/{id} with the rewritten entry exactly when that entry is
\* non-empty and differs from the entry the POST returned; an entity without
\* entry gets the POST only; a failing request ends the sequence there
C22_CreateOrder ==
    call.op = "create" =>
        /\ Len(wire) = SentCount
        /\ \A k \in 1..Len(wire) : SentAs(wire[k], ExpectedOrder[k])
        /\ Raised(outcome) <=> call.plan.failAt \in 1..Len(ExpectedOrder)

\* a create with two images whose entity carries both placeholders: POST,
\* two uploads, PATCH
C22_Witness ==
    /\ call.op = "create"
    /\ Len(call.images) = 2
    /\ Len(wire) = 4
    /\ wire[1].method = "POST" /\ IsUpload(wire[2]) /\ IsUpload(wire[3])
    /\ wire[4].method = "PATCH"
    /\ ~Raised(outcome)

----------------------------------------------------------------------------
(* The order of the requests of update_post(images=...).                   *)

\* the remote answers the GET and the PATCH of the post with a post
\* carrying the entry, and fails at no request, at the second or at the third
PostOrderPlans ==
    {[DefaultPlan EXCEPT !.post = DictSet(PostDoc, "entry", e),
                         !.failAt = f, !.failStatus = 422] :
        e \in PostedEntries \ {PyHtml(<<"x">>, <<>>)}, f \in {0, 2, 3}}

\* the entry field of the call: absent, the empty string, or an entry with
\* the placeholders of the mapping
PostEntryKwargs(images) ==
    {[name |-> PyStr(<<"a">>)],
     [name |-> PyStr(<<"a">>), entry |-> PyHtml(<<>>, <<>>)],
     [name |-> PyStr(<<"a">>), entry |-> EntryFor(images)]}

\* client.characters.update_post(entity_or_id, 1, images=images, **kwargs)
OrderedUpdatePost ==
    \E images \in OrderMaps, byObject \in BOOLEAN, plan \in PostOrderPlans :
        \E kwargs \in PostEntryKwargs(images) :
            LET W == update_post(World(plan), Characters,
                                 Target(Holder, byObject), 1, images, PyNone,
                                 kwargs)
            IN  /\ GalleryRoom(images)
                /\ Commit([op |-> "update_post", byObject |-> byObject,
                           post_id |-> 1, images |-> images,
                           kwargs |-> kwargs, plan |-> plan], W)
                /\ before' = assets
                /\ UNCHANGED <<held, lastOk>>

NextPostOrder == OrderedUpdatePost

SpecPostOrder == InitManagers /\ [][NextPostOrder]_vars

\* what a request of update_post is
KindOf(req) ==
    LET ep == req.url.endpoint
        post == ep = Endpoint("entities", TheEntity.entity_id, "posts", 1)
    IN  IF req.method = "GET" /\ post THEN "get_post"
        ELSE IF req.method = "PATCH" /\ post THEN "patch_post"
        ELSE IF ep.root = "entities" /\ ep.id = TheEntity.entity_id
                /\ ep.sub = "entity_assets"
        THEN IF req.method = "GET" /\ ep.sub_id = 0 THEN "list_assets"
             ELSE IF IsUpload(req) \/ IsAssetDelete(req) THEN "asset_op"
             ELSE "other"
        ELSE "other"

\* the call fetches the post: images given and no entry among the fields
FetchesPost ==
    call.images # <<>> /\ DictGet(call.kwargs, "entry").t = "none"

\* the entry the image layer works on: the supplied or the fetched one
WorkingEntry ==
    IF FetchesPost THEN call.plan.post.entry ELSE DictGet(call.kwargs, "entry")

\* each source of the working entry that is a key of the mapping is, in the
\* PATCH, the URL of an asset the entity holds under that key's derived name
EntryRewritten(sent) ==
    /\ sent.t = "str"
    /\ sent.s = WorkingEntry.s
    /\ Len(sent.h) = Len(WorkingEntry.h)
    /\ \A j \in 1..Len(sent.h) :
           IF \E i \in 1..Len(call.images) :
                  call.images[i].key = WorkingEntry.h[j]
           THEN \E i \in 1..Len(call.images), a \in 1..Len(assets) :
                    /\ call.images[i].key = WorkingEntry.h[j]
                    /\ assets[a].name = DerivedName(call.images[i].key,
                                                    call.images[i].file)
                    /\ sent.h[j] = assets[a].url
           ELSE sent.h[j] = WorkingEntry.h[j]

\* the requests of the last update_post in the order get_post (when it
\* fetches), list_assets and asset operations (when lists holds), patch_post
PostOrder(lists) ==
    LET g == IF FetchesPost THEN 1 ELSE 0
        l == IF lists THEN 1 ELSE 0
        n == Len(wire)
    IN  /\ \A k \in 1..n :
               /\ KindOf(wire[k]) # "other"
               /\ KindOf(wire[k]) = "get_post" <=> (FetchesPost /\ k = 1)
               /\ KindOf(wire[k]) = "list_assets" <=> (lists /\ k = g + 1)
               /\ KindOf(wire[k]) = "asset_op" => (lists /\ g + 1 < k)
               /\ KindOf(wire[k]) = "patch_post" => (k = n /\ g + l < k)
        /\ Raised(outcome) <=> call.plan.failAt \in 1..n
        /\ ~Raised(outcome) =>
               /\ n > g + l
               /\ KindOf(wire[n]) = "patch_post"
               /\ lists => EntryRewritten(wire[n].kw.json.entry)

----------------------------------------------------------------------------
(* A failing asset request inside create, update, create_post, update_post.*)

MaxFail == 4

BothLabels == PyHtml(<<"x">>, <<ShortLabels[1], ShortLabels[2]>>)

\* the entity and the post the remote returns carry both placeholders; the
\* remote fails at no request or at one of the first MaxFail, with a 404
FailPlans ==
    {[DefaultPlan EXCEPT !.data = DictSet(DocA, "entry", BothLabels),
                         !.post = DictSet(PostDoc, "entry", BothLabels),
                         !.failAt = f, !.failStatus = 404] : f \in 0..MaxFail}

\* the images mappings of the calls: those of OrderMaps and one that changes
\* the file of the second label
FailMaps == OrderMaps \cup {<<[key |-> ShortLabels[2], file |-> "f2"]>>}

\* what the four operations have in common
Failing(op, images, plan, byObject, W) ==
    /\ GalleryRoom(images)
    /\ Commit([op |-> op, images |-> images, byObject |-> byObject,
               plan |-> plan], W)
    /\ UNCHANGED <<held, lastOk>>

\* client.characters.create(name=..., entry=..., images=images)
FailingCreate ==
    \E images \in FailMaps, plan \in FailPlans :
        /\ before' = assets
        /\ Failing("create", images, plan, FALSE,
                   create(World(plan), Characters, images,
                          [name |-> PyStr(<<"a">>), entry |-> BothLabels]))

\* client.characters.update(entity_or_id, images=images)
FailingUpdate ==
    \E images \in FailMaps, plan \in FailPlans, byObject \in BOOLEAN :
        /\ before' = assets
        /\ Failing("update", images, plan, byObject,
                   update(World(plan), Characters,
                          IF byObject
                          THEN ByObject(ModelInit(CharacterDefaults,
                                                  plan.data, 1))
                          ELSE ById(TheEntity.id),
                          images, <<>>))

\* client.characters.create_post(entity_id, name, entry, images=images)
FailingCreatePost ==
    \E images \in FailMaps, plan \in FailPlans :
        /\ before' = assets
        /\ Failing("create_post", images, plan, FALSE,
                   create_post(World(plan), Characters,
                               ById(TheEntity.entity_id), PyStr(<<"a">>),
                               BothLabels, images, PyNone, <<>>))

\* client.characters.update_post(entity_id, 1, images=images, name=...)
FailingUpdatePost ==
    \E images \in FailMaps, plan \in FailPlans :
        /\ before' = assets
        /\ Failing("update_post", images, plan, FALSE,
                   update_post(World(plan), Characters,
                               ById(TheEntity.entity_id), 1, images, PyNone,
                               [name |-> PyStr(<<"a">>)]))

NextFailing ==
    FailingCreate \/ FailingUpdate \/ FailingCreatePost \/ FailingUpdatePost

SpecFailing == InitManagers /\ [][NextFailing]_vars

IsAssetRequest(r) == r.url.endpoint.sub = "entity_assets"

\* the asset request the remote failed, 0 when it failed none
FailedAssetRequest ==
    IF /\ call.op \in {"create", "update", "create_post", "update_post"}
       /\ "images" \in DOMAIN call
       /\ call.plan.failAt \in 1..Len(wire)
       /\ IsAssetRequest(wire[call.plan.failAt])
    THEN call.plan.failAt ELSE 0

\* the assets the remote holds are those it held before the call, less the
\* ones deleted and plus the ones uploaded by the first n requests
AssetsAsLeft(n) ==
    LET deleted == {wire[k].url.endpoint.sub_id :
                       k \in {j \in 1..n : IsAssetDelete(wire[j])}}
        uploaded == {wire[k].kw.data.name.s :
                        k \in {j \in 1..n : IsUpload(wire[j])}}
    IN  /\ \A a \in 1..Len(assets) :
               \/ \E b \in 1..Len(before) :
                      before[b] = assets[a] /\ before[b].id \notin deleted
               \/ assets[a].name \in uploaded
        /\ \A b \in 1..Len(before) :
               before[b].id \notin deleted
                   => \E a \in 1..Len(assets) : assets[a] = before[b]
        /\ \A b \in 1..Len(before) :
               before[b].id \in deleted
                   => \A a \in 1..Len(assets) : assets[a].id # before[b].id
        /\ Len(assets) = Len(before) - Cardinality(deleted)
                         + Cardinality({j \in 1..n : IsUpload(wire[j])})

\* C24: when the remote fails an asset request (listing, delete or upload)
\* of create, update, create_post or update_post with images, the call
\* raises the error mapped from the status, that request is the last one
\* sent, nothing deletes the created entity, and the assets are as the
\* requests before the failing one left them
C24_FailFast ==
    FailedAssetRequest # 0 =>
        /\ Raised(outcome)
        /\ outcome.exc = MappedError(call.plan.failStatus)
        /\ Len(wire) = FailedAssetRequest
        /\ \A k \in 1..Len(wire) :
               wire[k].method = "DELETE" => IsAssetDelete(wire[k])
        /\ AssetsAsLeft(FailedAssetRequest - 1)

\* an update that deleted the asset of a changed file and whose upload of
\* the new file failed: the old asset is gone and no PATCH went out
C24_Witness ==
    /\ call.op = "update"
    /\ FailedAssetRequest = Len(wire)
    /\ Len(wire) >= 3
    /\ IsAssetDelete(wire[Len(wire) - 1])
    /\ IsUpload(wire[Len(wire)])
    /\ Len(assets) = Len(before) - 1
    /\ Raised(outcome)

----------------------------------------------------------------------------
(* Assets the caller created directly, and image reconciliation.           *)

\* the names a caller gives to an asset: a plain one, and one that has the
\* shape label ':' 12 hex digits with a label no images mapping uses
UserNames == {<<"a">>, DerivedName(<<"r">>, "f1")}

\* client.characters.create_link_asset / create_alias_asset /
\* create_file_asset(entity_id, ..., name=name)
UserAsset ==
    \E kind \in {"link", "alias", "file"}, name \in UserNames :
        LET e == ById(TheEntity.entity_id)
            W == CASE kind = "link" ->
                          create_link_asset(World(DefaultPlan), Characters, e,
                                            PyStr(name), PyStr(<<"l">>),
                                            PyNone, PyNone)
                   [] kind = "alias" ->
                          create_alias_asset(World(DefaultPlan), Characters, e,
                                             PyStr(name), PyNone)
                   [] OTHER ->
                          create_file_asset(World(DefaultPlan), Characters, e,
                                            "f2", PyStr(name), PyNone, FALSE)
        IN  /\ assetIds < MaxAssets
            /\ Commit([op |-> "create_" \o kind \o "_asset", name |-> name,
                       plan |-> DefaultPlan], W)
            /\ before' = assets
            /\ UNCHANGED <<held, lastOk>>

\* client.characters.update(1, images=images, entry=...)
ReconcilingUpdate ==
    \E images \in FailMaps \ {<<>>}, byObject \in BOOLEAN :
        LET W == update(World(DefaultPlan), Characters,
                        IF byObject THEN ByObject(Holder)
                        ELSE ById(TheEntity.id),
                        images, [entry |-> EntryFor(images)])
        IN  /\ GalleryRoom(images)
            /\ Commit([op |-> "update", images |-> images,
                       byObject |-> byObject, plan |-> DefaultPlan], W)
            /\ before' = assets
            /\ UNCHANGED <<held, lastOk>>

\* client.characters.update_post(2, 1, images=images, entry=...)
ReconcilingUpdatePost ==
    \E images \in FailMaps \ {<<>>} :
        LET W == update_post(World(DefaultPlan), Characters,
                             ById(TheEntity.entity_id), 1, images, PyNone,
                             [entry |-> EntryFor(images)])
        IN  /\ GalleryRoom(images)
            /\ Commit([op |-> "update_post", images |-> images,
                       byObject |-> FALSE, plan |-> DefaultPlan], W)
            /\ before' = assets
            /\ UNCHANGED <<held, lastOk>>

NextUserAssets == UserAsset \/ ReconcilingUpdate \/ ReconcilingUpdatePost

SpecUserAssets == InitManagers /\ [][NextUserAssets]_vars

\* the asset was created by the caller, not by the image layer: a link, an
\* alias, or a file under a name of the caller
UserCreated(asset) == asset.type_id \in {2, 3} \/ asset.name \in UserNames

\* C25 as stated: an update or update_post with images deletes no asset the
\* caller created directly, whatever its name is
C25_AsStated ==
    call.op \in {"update", "update_post"} =>
        \A b \in 1..Len(before) :
            UserCreated(before[b])
                => \E a \in 1..Len(assets) : assets[a] = before[b]

\* a reconciliation ran while the entity held a link asset of the caller
\* whose name ends in ':' and 12 hex digits
C25_Witness ==
    /\ call.op \in {"update", "update_post"}
    /\ \E b \in 1..Len(before) :
           before[b].type_id = 2 /\ IsManaged(before[b])
    /\ Len(wire) >= 2

----------------------------------------------------------------------------
(* The post operations of the manager revision KankaClient imports         *)
(* (kanka/managers.py, next to client.py).                                 *)

\* entity_or_id.id if hasattr(entity_or_id, "id") else entity_or_id
OlderEntityId(entity_or_id) ==
    IF entity_or_id.isint THEN entity_or_id.n
    ELSE entity_or_id.ent.fields.id.n

\* EntityManager.list_posts of that revision
OlderListPosts(W, m, entity_or_id, page, limit) ==
    Then(Send(W, "GET",
              Endpoint(m.endpoint, OlderEntityId(entity_or_id), "posts", 0),
              [params |-> [page |-> PyInt(page), limit |-> PyInt(limit)]]),
         LAMBDA W1 :
             Instances(
                 [W1 EXCEPT !.mgr[m.name] =
                     DictUpdate(@, [_last_posts_meta |->
                                        EnvelopeGet(Value(W1).doc, "meta"),
                                    _last_posts_links |->
                                        EnvelopeGet(Value(W1).doc, "links")])],
                 PostDefaults, Value(W1).doc))

\* EntityManager.create_post of that revision
OlderCreatePost(W, m, entity_or_id, name, entry, is_private, kwargs) ==
    Then(Send(W, "POST",
              Endpoint(m.endpoint, OlderEntityId(entity_or_id), "posts", 0),
              [json |-> DictUpdate([name |-> name, entry |-> entry,
                                    is_private |->
                                        PyInt(IF is_private THEN 1 ELSE 0)],
                                   kwargs)]),
         LAMBDA W1 : Construct(W1, PostDefaults, Value(W1).doc.data))

\* EntityManager.get_post of that revision
OlderGetPost(W, m, entity_or_id, post_id) ==
    Then(Send(W, "GET",
              Endpoint(m.endpoint, OlderEntityId(entity_or_id), "posts",
                       post_id), <<>>),
         LAMBDA W1 : Construct(W1, PostDefaults, Value(W1).doc.data))

\* EntityManager.update_post of that revision
OlderUpdatePost(W, m, entity_or_id, post_id, kwargs) ==
    Then(Send(W, "PATCH",
              Endpoint(m.endpoint, OlderEntityId(entity_or_id), "posts",
                       post_id),
              [json |-> IF "is_private" \in DOMAIN kwargs
                           /\ kwargs.is_private.t = "bool"
                        THEN DictSet(kwargs, "is_private",
                                     PyInt(kwargs.is_private.n))
                        ELSE kwargs]),
         LAMBDA W1 : Construct(W1, PostDefaults, Value(W1).doc.data))

\* EntityManager.delete_post of that revision
OlderDeletePost(W, m, entity_or_id, post_id) ==
    Then(Send(W, "DELETE",
              Endpoint(m.endpoint, OlderEntityId(entity_or_id), "posts",
                       post_id), <<>>),
         LAMBDA W1 : Returning(W1, TRUE))

\* entities whose type-specific id and universal entity id differ or agree
OlderEntities ==
    {ModelInit(CharacterDefaults,
               [DocA EXCEPT !.id = PyInt(p[1]), !.entity_id = PyInt(p[2])], 1) :
        p \in {<<1, 2>>, <<2, 1>>, <<3, 3>>}}

OlderPlans == {DefaultPlan, FailingPlan(1, 404)}

\* the caller passes the entity object or its bare entity_id
OlderTarget(e, byObject) ==
    IF byObject THEN ByObject(e) ELSE ById(e.fields.entity_id.n)

OlderCall(op, e, byObject, plan, W) ==
    /\ Commit([op |-> op, entity |-> e, byObject |-> byObject, plan |-> plan],
              W)
    /\ UNCHANGED <<held, lastOk, before>>

OlderList ==
    \E e \in OlderEntities, byObject \in BOOLEAN, plan \in OlderPlans,
       page \in 1..MaxPage :
        /\ TRUE
        /\ OlderCall("list_posts", e, byObject, plan,
                     OlderListPosts(World(plan), Characters,
                                    OlderTarget(e, byObject), page, 30))

OlderCreate ==
    \E e \in OlderEntities, byObject \in BOOLEAN, plan \in OlderPlans,
       is_private \in BOOLEAN :
        /\ TRUE
        /\ OlderCall("create_post", e, byObject, plan,
                     OlderCreatePost(World(plan), Characters,
                                     OlderTarget(e, byObject), PyStr(<<"a">>),
                                     PyStr(<<"x">>), is_private, <<>>))

OlderGet ==
    \E e \in OlderEntities, byObject \in BOOLEAN, plan \in OlderPlans,
       post_id \in 1..MaxPosts :
        /\ TRUE
        /\ OlderCall("get_post", e, byObject, plan,
                     OlderGetPost(World(plan), Characters,
                                  OlderTarget(e, byObject), post_id))

OlderUpdate ==
    \E e \in OlderEntities, byObject \in BOOLEAN, plan \in OlderPlans,
       is_private \in BOOLEAN :
        /\ TRUE
        /\ OlderCall("update_post", e, byObject, plan,
                     OlderUpdatePost(World(plan), Characters,
                                     OlderTarget(e, byObject), 1,
                                     [is_private |-> PyBool(is_private)]))

OlderDelete ==
    \E e \in OlderEntities, byObject \in BOOLEAN, plan \in OlderPlans,
       post_id \in 1..MaxPosts :
        /\ TRUE
        /\ OlderCall("delete_post", e, byObject, plan,
                     OlderDeletePost(World(plan), Characters,
                                     OlderTarget(e, byObject), post_id))

NextOlderPosts ==
    OlderList \/ OlderCreate \/ OlderGet \/ OlderUpdate \/ OlderDelete

SpecOlderPosts == InitManagers /\ [][NextOlderPosts]_vars

OlderPostOps ==
    {"list_posts", "create_post", "get_post", "update_post", "delete_post"}

\* C26 as stated: in the manager revision KankaClient imports, a post
\* operation given an entity object addresses the entity by its universal
\* entity id, as the same operation given the bare entity_id does
C26_AsStated ==
    (call.op \in OlderPostOps /\ "entity" \in DOMAIN call /\ call.byObject) =>
        /\ Len(wire) = 1
        /\ wire[1].url.endpoint.id = call.entity.fields.entity_id.n

\* list_posts ran on the object of an entity with id 1 and entity_id 2
C26_Witness ==
    /\ call.op = "list_posts"
    /\ "entity" \in DOMAIN call
    /\ call.byObject
    /\ call.entity.fields.id = PyInt(1)
    /\ call.entity.fields.entity_id = PyInt(2)
    /\ Len(wire) = 1
    /\ wire[1].method = "GET"

----------------------------------------------------------------------------
(* C27: the manual pagination loop of the docstring of list():             *)
(*     page = 1                                                            *)
(*     while True:                                                         *)
(*         chars = client.characters.list(page=page)                       *)
(*         if not client.characters.has_next_page: break                   *)
(*         page += 1                                                       *)
(* `before` holds the loop: where it stands, its page, the list() calls    *)
(* made, and the listing the remote serves (n pages, the links of the      *)
(* last one).                                                              *)

\* the links of the last page: next null, no next key, no links at all,
\* and an empty next
LastLinks == {"null", "nokey", "nolinks", "empty"}

\* the remote's answer to page `page` of a listing of n pages
LoopEnvelope(page, n, last) ==
    LET base == [data |-> <<DocA>>, meta |-> [current_page |-> PyInt(page)]] IN
    IF page < n
    THEN DictSet(base, "links",
                 [prev |-> PyNone, next |-> PyStr(IntToStr(page + 1))])
    ELSE CASE last = "null" ->
                  DictSet(base, "links",
                          [prev |-> PyStr(<<"1">>), next |-> PyNone])
           [] last = "nokey" -> DictSet(base, "links", [prev |-> PyStr(<<"1">>)])
           [] last = "empty" -> DictSet(base, "links", [next |-> PyStr(<<>>)])
           [] OTHER -> base

NoLoop == [pc |-> "idle"]

InitLoop ==
    /\ client = NewClient("t1", 123)
    /\ call = NoCall
    /\ before = NoLoop
    /\ wire = <<>>
    /\ outcome = Return(<<>>)
    /\ held = NoEntity
    /\ mgr = [m \in Managers |-> <<>>]
    /\ lastOk = [m \in Managers |-> [seen |-> FALSE, meta |-> <<>>, links |-> <<>>]]
    /\ assets = <<>>
    /\ assetIds = 0
    /\ stored = InitialStore

\* page = 1, against a remote that serves n pages
LoopStart ==
    \E m \in Managers, n \in 1..(MaxPage + 1), last \in LastLinks :
        /\ before.pc \in {"idle", "done"}
        /\ before' = [pc |-> "list", m |-> m, page |-> 1, calls |-> 0,
                      n |-> n, last |-> last]
        /\ UNCHANGED <<client, call, wire, outcome, held, mgr, lastOk, assets,
                       assetIds, stored>>

\* the loop stands at its list() statement and moves on to the test
LoopCallsList ==
    /\ before.pc = "list"
    /\ before.calls <= before.n
    /\ before' = [before EXCEPT !.pc = "test", !.calls = @ + 1]

\* chars = client.<m>.list(page=page)
LoopList ==
    /\ LoopCallsList
    /\ LET plan == [DefaultPlan EXCEPT
                       !.page = LoopEnvelope(before.page, before.n, before.last)]
           W == list(World(plan), Manager(before.m), before.page, 30, FALSE, <<>>)
       IN  /\ Commit([op |-> "list", m |-> before.m, page |-> before.page,
                      plan |-> plan], W)
           /\ lastOk' = [lastOk EXCEPT ![before.m] =
                            [seen |-> TRUE, meta |-> plan.page.meta,
                             links |-> IF "links" \in DOMAIN plan.page
                                       THEN plan.page.links ELSE <<>>]]
           /\ UNCHANGED held

\* if not client.<m>.has_next_page: break; page += 1
LoopTest ==
    /\ before.pc = "test"
    /\ before' = IF ~has_next_page(mgr[before.m])
                 THEN [before EXCEPT !.pc = "done"]
                 ELSE [before EXCEPT !.pc = "list", !.page = @ + 1]
    /\ UNCHANGED <<client, call, wire, outcome, held, mgr, lastOk, assets,
                   assetIds, stored>>

\* outside the loop, a list() the remote answers with an error status
LoopStray ==
    \E m \in Managers, status \in {404, 500} :
        LET plan == FailingPlan(1, status)
            W == list(World(plan), Manager(m), 1, 30, FALSE, <<>>) IN
        /\ before.pc \in {"idle", "done"}
        /\ Commit([op |-> "list", m |-> m, page |-> 1, plan |-> plan], W)
        /\ UNCHANGED <<held, lastOk, before>>

NextLoop == LoopStart \/ LoopList \/ LoopTest \/ LoopStray

SpecLoop == InitLoop /\ [][NextLoop]_vars

\* the loop is straight-line code: once entered, each of its statements
\* runs. list() returns or raises for every answer, so the steps of LoopList
\* are the steps of SpecLoop that move the loop on from its list() statement
SpecLoopFair == SpecLoop /\ WF_before(LoopCallsList) /\ WF_before(LoopTest)

\* the 'next' of the links the most recent successful list() of m stored
StoredNext(m) ==
    /\ lastOk[m].seen
    /\ "next" \in DOMAIN lastOk[m].links
    /\ lastOk[m].links.next.t = "str"
    /\ lastOk[m].links.next.s # <<>>

LoopSafe ==
    /\ \A m \in Managers : has_next_page(mgr[m]) = StoredNext(m)
    /\ \A m \in Managers : ~lastOk[m].seen => ~has_next_page(mgr[m])
    /\ before.pc \in {"list", "test", "done"} =>
        /\ before.calls <= before.n
        /\ before.page <= before.n
        /\ before.pc = "test" =>
            /\ before.calls = before.page
            /\ wire[1].kw.params.page = PyInt(before.page)
            /\ has_next_page(mgr[before.m]) = (before.page < before.n)
        /\ before.pc = "done" => before.calls = before.n

\* C27: against a remote whose pages 1..N-1 carry a non-empty links.next
\* and whose page N carries none, the manual loop ends after exactly N
\* list() calls; has_next_page is true exactly when the links stored by the
\* most recent successful list() hold a non-empty next, and false before
\* any list()
C27_LoopTerminates ==
    /\ []LoopSafe
    /\ (before.pc = "list") ~> (before.pc = "done")

\* a loop over three pages has ended, the last page with a null next
C27_Witness ==
    /\ before.pc = "done"
    /\ before.n = 3
    /\ before.calls = 3
    /\ before.last = "null"
    /\ call.op = "list"
    /\ wire[1].kw.params.page = PyInt(3)
    /\ ~has_next_page(mgr[before.m])

----------------------------------------------------------------------------
(* C28: what list() stored on a manager, and the operations that follow    *)
(* on it and on another manager.                                           *)

FramePlans == {DefaultPlan, FailingPlan(1, 404)}

\* the images mappings of the create and update calls: none, and one file
FrameMaps == {<<>>, <<[key |-> ShortLabels[1], file |-> "f1"]>>}

\* client.<m>.list(page=page)
FrameList ==
    \E m \in Managers, plan \in PagePlans, page \in 1..MaxPage :
        LET W == list(World(plan), Manager(m), page, 30, FALSE, <<>>) IN
        /\ Commit([op |-> "list", m |-> m, plan |-> plan], W)
        /\ UNCHANGED <<held, lastOk, before>>

\* an operation of client.characters other than list()
FrameCall(op, plan, W) ==
    /\ Commit([op |-> op, m |-> "characters", plan |-> plan], W)
    /\ UNCHANGED <<held, lastOk, before>>

FrameGet ==
    \E plan \in FramePlans :
        /\ TRUE
        /\ FrameCall("get", plan,
                     get(World(plan), Characters, TheEntity.id, FALSE))

FrameCreate ==
    \E plan \in FramePlans, images \in FrameMaps :
        /\ GalleryRoom(images)
        /\ FrameCall("create", plan,
                     create(World(plan), Characters, images,
                            [name |-> PyStr(<<"a">>),
                             entry |-> EntryFor(images)]))

FrameUpdate ==
    \E plan \in FramePlans, images \in FrameMaps, byObject \in BOOLEAN :
        /\ GalleryRoom(images)
        /\ FrameCall("update", plan,
                     update(World(plan), Characters,
                            IF byObject THEN ByObject(Holder)
                            ELSE ById(TheEntity.id),
                            images, [entry |-> EntryFor(images)]))

FrameDelete ==
    \E plan \in FramePlans :
        /\ TRUE
        /\ FrameCall("delete", plan,
                     delete(World(plan), Characters, ById(TheEntity.id)))

FrameListPosts ==
    \E plan \in FramePlans :
        /\ TRUE
        /\ FrameCall("list_posts", plan,
                     list_posts(World(plan), Characters,
                                ById(TheEntity.entity_id), 1, 30))

FrameListAssets ==
    \E plan \in FramePlans :
        /\ TRUE
        /\ FrameCall("list_assets", plan,
                     list_assets(World(plan), Characters,
                                 ById(TheEntity.entity_id), 1, 30))

NextFrame ==
    \/ FrameList \/ FrameGet \/ FrameCreate \/ FrameUpdate \/ FrameDelete
    \/ FrameListPosts \/ FrameListAssets

SpecFrame == InitManagers /\ [][NextFrame]_vars

\* pagination_meta, pagination_links and has_next_page of a manager
PaginationOf(attrs) ==
    <<[k \in DOMAIN pagination_meta(attrs) |-> pagination_meta(attrs)[k]],
      [k \in DOMAIN pagination_links(attrs) |-> pagination_links(attrs)[k]],
      has_next_page(attrs)>>

\* the attributes an operation may assign on its manager
OwnAttrs(op) ==
    CASE op = "list" -> {"_last_meta", "_last_links"}
      [] op = "list_posts" -> {"_last_posts_meta", "_last_posts_links"}
      [] op \in {"list_assets", "update"} ->
             {"_last_assets_meta", "_last_assets_links"}
      [] OTHER -> {}

\* the attributes of a manager outside `keys`
AttrsBut(attrs, keys) == [k \in DOMAIN attrs \ keys |-> attrs[k]]

PaginationFrame ==
    \A m \in Managers :
        /\ (call'.op # "list" \/ call'.m # m) =>
               PaginationOf(mgr'[m]) = PaginationOf(mgr[m])
        /\ call'.m # m => AttrsBut(mgr'[m], {}) = AttrsBut(mgr[m], {})
        /\ call'.m = m =>
               AttrsBut(mgr'[m], OwnAttrs(call'.op))
                   = AttrsBut(mgr[m], OwnAttrs(call'.op))

\* C28: the pagination state of list() on a manager is changed only by
\* list() on that manager: get, create, update (with its internal asset
\* listing), delete, list_posts and list_assets leave pagination_meta,
\* pagination_links and has_next_page as they were; list_posts and
\* list_assets assign only their own last_posts / last_assets attributes
C28_PaginationFrame == [][PaginationFrame]_vars

\* after a list() that stored a next link, update(images=...) listed the
\* assets, and has_next_page still holds
C28_Witness ==
    /\ call.op = "update"
    /\ Len(wire) >= 2
    /\ wire[1].url.endpoint.sub = "entity_assets"
    /\ "_last_assets_meta" \in DOMAIN mgr["characters"]
    /\ "_last_posts_meta" \in DOMAIN mgr["characters"]
    /\ has_next_page(mgr["characters"])
    /\ pagination_meta(mgr["characters"]) = [total |-> PyInt(1)]

----------------------------------------------------------------------------
(* C29: reconciliation against an entity with more assets than the remote  *)
(* serves on one page.                                                     *)

\* the asset ids the remote hands out in this specification
MaxPaged == 3

\* the remote serves one asset on a page, or every asset
PagedPlans == {[DefaultPlan EXCEPT !.cap = c] : c \in {1, 30}}

PagedRoom(images) == assetIds + Len(images) <= MaxPaged

\* client.characters.update(1, images=images, entry=...)
PagedUpdate ==
    \E images \in FailMaps \ {<<>>}, plan \in PagedPlans :
        LET W == update(World(plan), Characters, ById(TheEntity.id), images,
                        [entry |-> EntryFor(images)])
        IN  /\ PagedRoom(images)
            /\ Commit([op |-> "update", images |-> images, plan |-> plan], W)
            /\ before' = assets
            /\ UNCHANGED <<held, lastOk>>

\* client.characters.update_post(2, 1, images=images, entry=...)
PagedUpdatePost ==
    \E images \in FailMaps \ {<<>>}, plan \in PagedPlans :
        LET W == update_post(World(plan), Characters,
                             ById(TheEntity.entity_id), 1, images, PyNone,
                             [entry |-> EntryFor(images)])
        IN  /\ PagedRoom(images)
            /\ Commit([op |-> "update_post", images |-> images,
                       plan |-> plan], W)
            /\ before' = assets
            /\ UNCHANGED <<held, lastOk>>

NextPaged == PagedUpdate \/ PagedUpdatePost

SpecPaged == InitManagers /\ [][NextPaged]_vars

\* the requests of the last call that list the assets
Listings ==
    {k \in 1..Len(wire) :
        /\ wire[k].method = "GET"
        /\ wire[k].url.endpoint.sub = "entity_assets"
        /\ wire[k].url.endpoint.sub_id = 0}

\* the assets the remote served on the first page, and those it held back
FirstPage == PageOf(before, 1, Min(30, call.plan.cap))
BeyondFirstPage == SubSeq(before, Len(FirstPage) + 1, Len(before))

\* a managed asset of the label is on the first page
OnFirstPage(label) ==
    \E a \in 1..Len(FirstPage) :
        IsManaged(FirstPage[a]) /\ LabelOf(FirstPage[a]) = label

\* the last call uploaded the file of images[i] under its managed name
UploadedFor(i) ==
    \E k \in 1..Len(wire) :
        /\ IsUpload(wire[k])
        /\ wire[k].kw.data.name.s
               = DerivedName(call.images[i].key, call.images[i].file)

\* C29: an update or update_post with images reads the existing assets with
\* exactly one listing request (page 1, limit 30) and decides from that page
\* alone: every delete is of an asset of that page, an asset beyond it is
\* kept, and a label with no managed asset on that page is uploaded even
\* when an asset beyond the page holds the same file
C29_FirstPageOnly ==
    (call.op \in {"update", "update_post"} /\ "cap" \in DOMAIN call.plan) =>
        /\ Cardinality(Listings) = 1
        /\ \A k \in Listings :
               wire[k].kw.params = [page |-> PyInt(1), limit |-> PyInt(30)]
        /\ \A k \in 1..Len(wire) :
               IsAssetDelete(wire[k]) =>
                   \E a \in 1..Len(FirstPage) :
                       FirstPage[a].id = wire[k].url.endpoint.sub_id
        /\ \A b \in 1..Len(BeyondFirstPage) :
               \E a \in 1..Len(assets) : assets[a] = BeyondFirstPage[b]
        /\ \A i \in 1..Len(call.images) :
               ~OnFirstPage(call.images[i].key) => UploadedFor(i)

\* the remote held the asset of q's file beyond the first page: the update
\* uploaded the file again and now holds it twice
C29_Witness ==
    /\ call.op = "update"
    /\ call.plan.cap = 1
    /\ Len(before) = 2
    /\ \E b \in 1..Len(BeyondFirstPage) :
           /\ BeyondFirstPage[b].name = DerivedName(<<"q">>, "f2")
           /\ \E i \in 1..Len(call.images) :
                  /\ call.images[i] = [key |-> <<"q">>, file |-> "f2"]
                  /\ UploadedFor(i)
    /\ Cardinality({a \in 1..Len(assets) :
                       assets[a].name = DerivedName(<<"q">>, "f2")}) = 2

----------------------------------------------------------------------------
(* C30: the names of managed assets, formatted and parsed.                 *)

\* labels: one to three characters, a colon and a line break among them,
\* and labels of 31, 32, 33 and 34 characters
NameLabels ==
    {<<>>, <<"p">>, <<":">>, <<"p", ":", "q">>, <<"p", "\n">>, <<"\n", "p">>}
    \cup {h \o Rep("a", k) : h \in {<<"p">>, <<"p", ":">>},
                             k \in (max_name_len - 2)..(max_name_len + 1)}

\* hash prefixes: 12 lowercase hex digits
NameHashes ==
    {Rep("a", hash_len), Rep("0", hash_len),
     <<"0", "1", "2", "3", "4", "5", "6", "7", "8", "9", "e", "f">>}

\* names as an asset may carry them: formatted ones, and ones with a final
\* line break, an upper-case or a missing digit, no prefix, or no colon
RawNames ==
    LET good == {_format_managed_asset_name(l, h) :
                    l \in {<<"p">>, <<"p", ":", "q">>, <<"p", "\n">>},
                    h \in NameHashes}
    IN  good
        \cup {n \o <<"\n">> : n \in good}
        \cup {n \o <<"\n", "\n">> : n \in good}
        \cup {SubSeq(n, 1, Len(n) - 1) : n \in good}
        \cup {SubSeq(n, 1, Len(n) - 1) \o <<"A">> : n \in good}
        \cup {SubSeq(n, 2, Len(n)) : n \in good}
        \cup {<<>>, <<"p">>, <<":">>} \cup NameHashes

NameCall(c, v) ==
    /\ call' = c
    /\ outcome' = Return(v)
    /\ UNCHANGED <<client, before, wire, held, mgr, lastOk, assets, assetIds,
                   stored>>

\* EntityManager._format_managed_asset_name(name, hash_prefix)
FormatName ==
    \E name \in NameLabels, hash_prefix \in NameHashes :
        /\ TRUE
        /\ NameCall([op |-> "format", name |-> name,
                     hash_prefix |-> hash_prefix],
                    _format_managed_asset_name(name, hash_prefix))

\* EntityManager._parse_managed_asset_name(asset_name)
ParseName ==
    \E asset_name \in RawNames :
        /\ TRUE
        /\ NameCall([op |-> "parse", asset_name |-> asset_name],
                    _parse_managed_asset_name(asset_name))

\* _parse_managed_asset_name(_format_managed_asset_name(name, hash_prefix))
ParseFormatted ==
    \E name \in NameLabels, hash_prefix \in NameHashes :
        /\ TRUE
        /\ NameCall([op |-> "roundtrip", name |-> name,
                     hash_prefix |-> hash_prefix],
                    _parse_managed_asset_name(
                        _format_managed_asset_name(name, hash_prefix)))

NextNames == FormatName \/ ParseName \/ ParseFormatted

SpecNames == InitManagers /\ [][NextNames]_vars

\* the label is not empty and has no line break
PlainLabel(name) ==
    name # <<>> /\ \A i \in 1..Len(name) : name[i] # "\n"

\* the name ends in a colon and 12 lowercase hex digits after a non-empty
\* prefix
EndsInHash(asset_name) ==
    LET L == Len(asset_name) IN
    /\ L >= hash_len + 2
    /\ asset_name[L - hash_len] = ":"
    /\ \A i \in (L - hash_len + 1)..L : asset_name[i] \in HexDigits

\* the label, cut to 32 characters
Truncated(name) == SubSeq(name, 1, Min(Len(name), 32))

\* C30 as stated: for a non-empty label without line break and a hash of 12
\* lowercase hex digits, parse(format(label, hash)) is the label cut to 32
\* characters and the hash; a formatted name is at most 45 characters long
\* and ends in ':' and the hash; parse returns None for every name that does
\* not end in ':' and 12 lowercase hex digits after a non-empty prefix
C30_AsStated ==
    /\ (call.op = "roundtrip" /\ PlainLabel(call.name)) =>
           outcome.value = [ok |-> TRUE, name |-> Truncated(call.name),
                            hash |-> call.hash_prefix]
    /\ call.op = "format" =>
           /\ Len(outcome.value) <= 45
           /\ SubSeq(outcome.value, Len(outcome.value) - hash_len,
                     Len(outcome.value)) = <<":">> \o call.hash_prefix
    /\ (call.op = "parse" /\ ~EndsInHash(call.asset_name)) =>
           ~outcome.value.ok

\* a name that ends in a line break was parsed
C30_Witness ==
    /\ call.op = "parse"
    /\ call.asset_name = <<"p", ":">> \o Rep("a", hash_len) \o <<"\n">>
    /\ outcome.kind = "return"
    /\ "ok" \in DOMAIN outcome.value

=============================================================================
